---------------------------- MODULE Spec2Model ----------------------------
(***************************************************************************)
(* A model of the go-uber client library: the reflection-driven request    *)
(* encoder (generateRequestURLHelper / generateRequestURL), the OAuth       *)
(* steps of the client (OAuth, SetAccessToken, AutOAuth) and the transport  *)
(* (httpReqDo, sendRequestWithAuthorization).                               *)
(*                                                                          *)
(* Go strings are sequences of one-character strings, so that formatting,   *)
(* joining, escaping and sorting are computed and not assumed.  A Go field  *)
(* name (used only inside error values) is a plain TLA+ string.             *)
(***************************************************************************)
EXTENDS Integers, Sequences, FiniteSets, TLC

VARIABLES
    desc,        \* EncSpec: the Request Description handed to the encoder
    encOut,      \* EncSpec: what generateRequestURLHelper returned for desc
    serverToken, \* Client.serverToken
    access,      \* *Client.access, the Access Grant
    auth,        \* *Client.auth, NilAuth until OAuth is called
    panicked,    \* the process died of a runtime panic
    last,        \* the last call on the client: arguments, traffic, result
    granted,     \* history: the grant of the latest HTTP-200 Bearer answer
    mainPc,      \* AutoSpec: where the goroutine that called AutOAuth is
    mainRet,     \* AutoSpec: the error AutOAuth returned
    autoErr,     \* AutoSpec: AutOAuth's variable err, shared with the handler
    listener,    \* AutoSpec: the goroutine running http.ListenAndServe
    handlers,    \* AutoSpec: the goroutines serving the redirect requests
    httpDone,    \* AutoSpec: the channel httpDone has been closed
    wPc,         \* RaceSpec: where the goroutine running SetAccessToken is
    wResp,       \* RaceSpec: the answer its PostForm received
    fresh,       \* RaceSpec: its local `access`, decoded and not yet published
    rPc,         \* RaceSpec: where the goroutine sending an oauth request is
    rOld,        \* RaceSpec: the grant of the client when that goroutine began
    rPtr,        \* RaceSpec: the value of c.access it loaded
    raced,       \* RaceSpec: c.access was assigned while it was running
    failed       \* RetrySpec: the kinds of error SetAccessToken has returned

autoVars == <<mainPc, mainRet, autoErr, listener, handlers, httpDone>>

concVars == <<wPc, wResp, fresh, rPc, rOld, rPtr, raced>>

vars ==
    <<desc, encOut, serverToken, access, auth, panicked, last, granted, autoVars, concVars,
      failed>>

(***************************************************************************)
(* Strings                                                                 *)
(***************************************************************************)

\* The characters the model uses, in ascending byte order.
Alphabet ==
    << " ", "%", "&", "+", "-", ".", "/",
       "0", "1", "2", "3", "4", "5", "6", "7", "8", "9",
       ":", "<", "=", ">", "A", "B", "C", "D", "E", "F", "_",
       "a", "b", "c", "d", "e", "f", "g", "h", "i", "j", "k", "l", "m",
       "n", "o", "p", "q", "r", "s", "t", "u", "v", "w", "x", "y", "z" >>

CodeTable ==
    [c \in {Alphabet[i] : i \in 1..Len(Alphabet)} |->
        CHOOSE i \in 1..Len(Alphabet) : Alphabet[i] = c]

Code(c) == CodeTable[c]

\* Byte-wise s < t, the order sort.Strings gives the keys in Values.Encode.
RECURSIVE StrLess(_, _)
StrLess(s, t) ==
    IF t = <<>> THEN FALSE
    ELSE IF s = <<>> THEN TRUE
    ELSE IF Head(s) = Head(t) THEN StrLess(Tail(s), Tail(t))
    ELSE Code(Head(s)) < Code(Head(t))

Digit(n) == <<"0", "1", "2", "3", "4", "5", "6", "7", "8", "9">>[n + 1]

RECURSIVE Digits(_)
Digits(n) == IF n < 10 THEN <<Digit(n)>> ELSE Digits(n \div 10) \o <<Digit(n % 10)>>

\* fmt.Sprintf("%v", int64): base 10, a minus sign when negative.
FormatInt(n) == IF n < 0 THEN <<"-">> \o Digits(0 - n) ELSE Digits(n)

\* fmt.Sprintf("%v", float64) for a float given in tenths: the shortest
\* decimal form, without a fraction when the value is whole (0.0 is "0").
FormatFloat(f) ==
    LET a == IF f < 0 THEN 0 - f ELSE f
        whole == Digits(a \div 10)
        frac == IF a % 10 = 0 THEN <<>> ELSE <<".", Digit(a % 10)>>
    IN  (IF f < 0 THEN <<"-">> ELSE <<>>) \o whole \o frac

\* fmt.Sprintf("%v", nil)
NilText == <<"<", "n", "i", "l", ">">>

(***************************************************************************)
(* Request Descriptions: a struct value as reflection sees it.             *)
(*   name      the Go field name                                           *)
(*   tag       the first part of the `query` tag ("" when there is none)   *)
(*   required  the second part of the tag is "required"                    *)
(*   kind      reflect.Kind of the field                                   *)
(*   s, n, f   the value of a string, int, float64 (in tenths) field       *)
(*   sub       the fields of a struct-kind field                           *)
(***************************************************************************)

SkipTag == <<"-">>

StrField(name, tag, required, s) ==
    [name |-> name, tag |-> tag, required |-> required, kind |-> "string",
     s |-> s, n |-> 0, f |-> 0, sub |-> <<>>]

IntField(name, tag, required, n) ==
    [name |-> name, tag |-> tag, required |-> required, kind |-> "int",
     s |-> <<>>, n |-> n, f |-> 0, sub |-> <<>>]

FloatField(name, tag, required, f) ==
    [name |-> name, tag |-> tag, required |-> required, kind |-> "float64",
     s |-> <<>>, n |-> 0, f |-> f, sub |-> <<>>]

StructField(name, tag, required, sub) ==
    [name |-> name, tag |-> tag, required |-> required, kind |-> "struct",
     s |-> <<>>, n |-> 0, f |-> 0, sub |-> sub]

\* A field of a kind the encoder's switch has no case for.
BoolField(name, tag, required) ==
    [name |-> name, tag |-> tag, required |-> required, kind |-> "bool",
     s |-> <<>>, n |-> 0, f |-> 0, sub |-> <<>>]

(***************************************************************************)
(* Errors are values: NoErr is Go's nil error.                             *)
(***************************************************************************)

\* kind: which error; field: the Go field an encoder error names; text and
\* code: the strings an error decoded from a response carries.
\* fields: the Fields of an uberError, written as one text; empty otherwise.
Err(kind, field, text, code) ==
    [kind |-> kind, field |-> field, text |-> text, code |-> code, fields |-> <<>>]

NoErr == Err("nil", "", <<>>, <<>>)

\* fmt.Errorf("uber: %s is a required field", fieldName)
RequiredErr(fieldName) == Err("required", fieldName, <<>>, <<>>)

\* fmt.Errorf("%s is invalid", fieldName)
InvalidErr(fieldName) == Err("invalid", fieldName, <<>>, <<>>)

(***************************************************************************)
(* url.Values: a map from key to the list of its values.                   *)
(***************************************************************************)

EmptyValues == [k \in {} |-> <<>>]

\* url.Values.Add
Add(payload, k, v) ==
    IF k \in DOMAIN payload
    THEN [payload EXCEPT ![k] = Append(@, v)]
    ELSE payload @@ (k :> <<v>>)

\* for k, va := range supPayload { payload.Add(k, va[0]) }
\* The iteration order of a Go map is unspecified; the loop adds to one key
\* per iteration, so every order gives this result.
MergeFirst(payload, supPayload) ==
    [k \in DOMAIN payload \cup DOMAIN supPayload |->
        (IF k \in DOMAIN payload THEN payload[k] ELSE <<>>)
        \o (IF k \in DOMAIN supPayload THEN <<supPayload[k][1]>> ELSE <<>>)]

EncFail(err) == [err |-> err, payload |-> EmptyValues]

\* Mutant of AddLeaf: the value is not compared with "".
AddLeaf_KeepsEmpty(payload, fld, isEmptyString, text) ==
    IF fld.tag # <<>> THEN Add(payload, fld.tag, text) ELSE payload

\* `if v != "" && queryTag[0] != ""`: v is an interface value, equal to ""
\* only when it holds the empty string.
AddLeaf(payload, fld, isEmptyString, text) ==
    IF ~isEmptyString /\ fld.tag # <<>> THEN Add(payload, fld.tag, text) ELSE payload

\* Mutant of Skipped: the required flag overrides the skip marker.
Skipped_UnlessRequired(fld) == fld.tag = SkipTag /\ ~fld.required

\* `if queryTag[0] == "-" { continue }`, ahead of the switch on the kind
Skipped(fld) == fld.tag = SkipTag

\* Mutant of RequiredAndEmpty: the flag is looked for in the first part of
\* the tag, where the name is.
RequiredAndEmpty_WrongTagPart(fld) ==
    fld.kind = "string" /\ fld.tag = <<"r", "e", "q", "u", "i", "r", "e", "d">> /\ fld.s = <<>>

\* Mutant of RequiredAndEmpty: the check runs for every kind and takes the
\* zero value for empty.
RequiredAndEmpty_ZeroIsEmpty(fld) ==
    /\ fld.required
    /\ \/ fld.kind = "string" /\ fld.s = <<>>
       \/ fld.kind = "int" /\ fld.n = 0
       \/ fld.kind = "float64" /\ fld.f = 0

\* The check inside `case reflect.String`: a required string that is empty.
\* No other case of the switch looks at the required flag.
RequiredAndEmpty(fld) == fld.kind = "string" /\ fld.required /\ fld.s = <<>>

\* Mutant of HelperLoop: a field of an unsupported kind is passed over.
RECURSIVE HelperLoop_SkipsUnsupported(_, _, _)
HelperLoop_SkipsUnsupported(val, i, payload) ==
    IF i > Len(val) THEN [err |-> NoErr, payload |-> payload]
    ELSE
    LET fld == val[i] IN
    IF Skipped(fld) THEN HelperLoop_SkipsUnsupported(val, i + 1, payload)
    ELSE IF RequiredAndEmpty(fld) THEN EncFail(RequiredErr(fld.name))
    ELSE CASE fld.kind = "int" ->
                HelperLoop_SkipsUnsupported(val, i + 1, AddLeaf(payload, fld, FALSE, FormatInt(fld.n)))
           [] fld.kind = "float64" ->
                HelperLoop_SkipsUnsupported(val, i + 1, AddLeaf(payload, fld, FALSE, FormatFloat(fld.f)))
           [] fld.kind = "string" ->
                HelperLoop_SkipsUnsupported(val, i + 1, AddLeaf(payload, fld, fld.s = <<>>, fld.s))
           [] fld.kind = "struct" ->
                LET sup == HelperLoop_SkipsUnsupported(fld.sub, 1, EmptyValues) IN
                IF sup.err # NoErr THEN EncFail(sup.err)
                ELSE IF DOMAIN sup.payload = {} THEN HelperLoop_SkipsUnsupported(val, i + 1, payload)
                ELSE \* v is still the nil interface here
                     HelperLoop_SkipsUnsupported(val, i + 1,
                         AddLeaf(MergeFirst(payload, sup.payload), fld, FALSE, NilText))
           [] OTHER -> HelperLoop_SkipsUnsupported(val, i + 1, payload)

\* Mutant of HelperLoop: the loop goes on after an invalid field and the
\* error of the last one is returned.
RECURSIVE HelperLoop_ReportsLast(_, _, _)
HelperLoop_ReportsLast(val, i, payload) ==
    IF i > Len(val) THEN [err |-> NoErr, payload |-> payload]
    ELSE
    LET fld == val[i]
        rest == HelperLoop_ReportsLast(val, i + 1, payload)
        Fail(e) == IF rest.err # NoErr THEN rest ELSE EncFail(e)
    IN
    IF Skipped(fld) THEN HelperLoop_ReportsLast(val, i + 1, payload)
    ELSE IF RequiredAndEmpty(fld) THEN Fail(RequiredErr(fld.name))
    ELSE CASE fld.kind = "int" ->
                HelperLoop_ReportsLast(val, i + 1, AddLeaf(payload, fld, FALSE, FormatInt(fld.n)))
           [] fld.kind = "float64" ->
                HelperLoop_ReportsLast(val, i + 1, AddLeaf(payload, fld, FALSE, FormatFloat(fld.f)))
           [] fld.kind = "string" ->
                HelperLoop_ReportsLast(val, i + 1, AddLeaf(payload, fld, fld.s = <<>>, fld.s))
           [] fld.kind = "struct" ->
                LET sup == HelperLoop_ReportsLast(fld.sub, 1, EmptyValues) IN
                IF sup.err # NoErr THEN Fail(sup.err)
                ELSE IF DOMAIN sup.payload = {} THEN HelperLoop_ReportsLast(val, i + 1, payload)
                ELSE \* v is still the nil interface here
                     HelperLoop_ReportsLast(val, i + 1,
                         AddLeaf(MergeFirst(payload, sup.payload), fld, FALSE, NilText))
           [] OTHER -> Fail(InvalidErr(fld.name))

RECURSIVE HelperLoop(_, _, _)
HelperLoop(val, i, payload) ==
    IF i > Len(val) THEN [err |-> NoErr, payload |-> payload]
    ELSE
    LET fld == val[i] IN
    IF Skipped(fld) THEN HelperLoop(val, i + 1, payload)
    ELSE IF RequiredAndEmpty(fld) THEN EncFail(RequiredErr(fld.name))
    ELSE CASE fld.kind = "int" ->
                HelperLoop(val, i + 1, AddLeaf(payload, fld, FALSE, FormatInt(fld.n)))
           [] fld.kind = "float64" ->
                HelperLoop(val, i + 1, AddLeaf(payload, fld, FALSE, FormatFloat(fld.f)))
           [] fld.kind = "string" ->
                HelperLoop(val, i + 1, AddLeaf(payload, fld, fld.s = <<>>, fld.s))
           [] fld.kind = "struct" ->
                LET sup == HelperLoop(fld.sub, 1, EmptyValues) IN
                IF sup.err # NoErr THEN EncFail(sup.err)
                ELSE IF DOMAIN sup.payload = {} THEN HelperLoop(val, i + 1, payload)
                ELSE \* v is still the nil interface here
                     HelperLoop(val, i + 1,
                         AddLeaf(MergeFirst(payload, sup.payload), fld, FALSE, NilText))
           [] OTHER -> EncFail(InvalidErr(fld.name))

generateRequestURLHelper(val) == HelperLoop(val, 1, EmptyValues)

(***************************************************************************)
(* The Request Descriptions the encoder is checked on: every struct value  *)
(* of at most MaxNodes fields (nested ones counted), built field by field  *)
(* in declaration order; a field is named by its nesting depth and its     *)
(* position in its struct.                                                 *)
(***************************************************************************)

MaxNodes == 3

Tags == {SkipTag, <<>>, <<"a">>, <<"b">>}

FieldName(depth, i) ==
    << <<"A1", "A2", "A3", "A4", "A5">>,
       <<"B1", "B2", "B3", "B4", "B5">>,
       <<"C1", "C2", "C3", "C4", "C5">>,
       <<"D1", "D2", "D3", "D4", "D5">>,
       <<"E1", "E2", "E3", "E4", "E5">> >>[depth][i]

\* The fields a struct may declare, their names still to be given: string
\* fields of every tag, flag and emptiness; numeric fields at their zero
\* value and tagged required; a float field that is not whole; a field of an
\* unsupported kind; a nested struct.
Shapes ==
    UNION { { StrField("", t, r, <<>>), StrField("", t, r, <<"x">>) }
            : t \in Tags, r \in BOOLEAN }
    \cup UNION { { IntField("", t, TRUE, 0), FloatField("", t, TRUE, 0),
                   BoolField("", t, FALSE) } : t \in Tags }
    \cup { FloatField("", <<"b">>, FALSE, 15), BoolField("", SkipTag, TRUE) }
    \cup { StructField("", t, FALSE, <<>>) : t \in {SkipTag, <<>>, <<"a">>} }

RECURSIVE Size(_)
Size(val) ==
    IF val = <<>> THEN 0
    ELSE 1 + Size(val[Len(val)].sub) + Size(SubSeq(val, 1, Len(val) - 1))

\* The struct at nesting depth `depth` on the path of last fields exists.
RECURSIVE HasStructAt(_, _)
HasStructAt(val, depth) ==
    \/ depth = 1
    \/ /\ val # <<>>
       /\ val[Len(val)].kind = "struct"
       /\ HasStructAt(val[Len(val)].sub, depth - 1)

\* Declare one more field, of shape `shape`, in that struct.
RECURSIVE DeclareAt(_, _, _, _)
DeclareAt(val, depth, level, shape) ==
    IF depth = 1
    THEN Append(val, [shape EXCEPT !.name = FieldName(level, Len(val) + 1)])
    ELSE [val EXCEPT ![Len(val)].sub = DeclareAt(@, depth - 1, level + 1, shape)]

(***************************************************************************)
(* url.Values.Encode and url.QueryEscape                                   *)
(***************************************************************************)

Hex(n) == <<"0", "1", "2", "3", "4", "5", "6", "7", "8", "9",
            "A", "B", "C", "D", "E", "F">>[n + 1]

\* The byte value of the characters QueryEscape has to escape.
Byte(c) ==
    CASE c = " " -> 32 [] c = "%" -> 37 [] c = "&" -> 38 [] c = "+" -> 43
      [] c = "/" -> 47 [] c = ":" -> 58 [] c = "<" -> 60 [] c = "=" -> 61
      [] c = ">" -> 62

Unreserved(c) == c \notin {" ", "%", "&", "+", "/", ":", "<", "=", ">"}

\* Mutant of QueryEscape: "+" is written as it is.
RECURSIVE QueryEscape_KeepsPlus(_)
QueryEscape_KeepsPlus(s) ==
    IF s = <<>> THEN <<>>
    ELSE LET c == Head(s) IN
         (IF Unreserved(c) \/ c = "+" THEN <<c>>
          ELSE IF c = " " THEN <<"+">>
          ELSE <<"%", Hex(Byte(c) \div 16), Hex(Byte(c) % 16)>>)
         \o QueryEscape_KeepsPlus(Tail(s))

RECURSIVE QueryEscape(_)
QueryEscape(s) ==
    IF s = <<>> THEN <<>>
    ELSE LET c == Head(s) IN
         (IF Unreserved(c) THEN <<c>>
          ELSE IF c = " " THEN <<"+">>
          ELSE <<"%", Hex(Byte(c) \div 16), Hex(Byte(c) % 16)>>)
         \o QueryEscape(Tail(s))

\* Mutant of SortedKeys: the keys in descending order.
RECURSIVE SortedKeys_Descending(_)
SortedKeys_Descending(keys) ==
    IF keys = {} THEN <<>>
    ELSE LET k == CHOOSE x \in keys : \A y \in keys \ {x} : StrLess(y, x)
         IN  <<k>> \o SortedKeys_Descending(keys \ {k})

\* The keys of a Values in ascending order (sort.Strings).
RECURSIVE SortedKeys(_)
SortedKeys(keys) ==
    IF keys = {} THEN <<>>
    ELSE LET k == CHOOSE x \in keys : \A y \in keys \ {x} : StrLess(x, y)
         IN  <<k>> \o SortedKeys(keys \ {k})

RECURSIVE EncodeKey(_, _, _)
EncodeKey(k, vs, buf) ==
    IF vs = <<>> THEN buf
    ELSE EncodeKey(k, Tail(vs),
             buf \o (IF buf = <<>> THEN <<>> ELSE <<"&">>)
                 \o QueryEscape(k) \o <<"=">> \o QueryEscape(Head(vs)))

RECURSIVE EncodeKeys(_, _, _)
EncodeKeys(v, keys, buf) ==
    IF keys = <<>> THEN buf
    ELSE EncodeKeys(v, Tail(keys), EncodeKey(Head(keys), v[Head(keys)], buf))

\* url.Values.Encode
ValuesEncode(v) == EncodeKeys(v, SortedKeys(DOMAIN v), <<>>)

(***************************************************************************)
(* generateRequestURL                                                      *)
(***************************************************************************)

NoURL == [base |-> "", endpoint |-> "", query |-> <<>>]

\* A nil uberAPIReq
NilData == [nil |-> TRUE, fields |-> <<>>]
Data(fields) == [nil |-> FALSE, fields |-> fields]

\* Mutant of generateRequestURL: the "?" is written whatever follows it.
generateRequestURL_AlwaysMark(base, endpoint, data) ==
    IF data.nil THEN [err |-> NoErr, url |-> [base |-> base, endpoint |-> endpoint, query |-> <<"?">>]]
    ELSE LET r == generateRequestURLHelper(data.fields)
         IN  IF r.err # NoErr THEN [err |-> r.err, url |-> NoURL]
             ELSE [err |-> NoErr,
                   url |-> [base |-> base, endpoint |-> endpoint,
                            query |-> <<"?">> \o ValuesEncode(r.payload)]]

\* fmt.Sprintf("%s/%s%s", base, endpoint, queryParameters): the URL is kept
\* as its three parts, query being "" or "?" followed by the encoded pairs.
generateRequestURL(base, endpoint, data) ==
    IF data.nil THEN [err |-> NoErr, url |-> [base |-> base, endpoint |-> endpoint, query |-> <<>>]]
    ELSE LET r == generateRequestURLHelper(data.fields)
             q == ValuesEncode(r.payload)
         IN  IF r.err # NoErr THEN [err |-> r.err, url |-> NoURL]
             ELSE [err |-> NoErr,
                   url |-> [base |-> base, endpoint |-> endpoint,
                            query |-> IF q # <<>> THEN <<"?">> \o q ELSE <<>>]]

(***************************************************************************)
(* JSON bodies.  A body is the sequence of JSON texts a json.Decoder reads  *)
(* from it, one per Decode; a text is malformed or an object, a function   *)
(* from the member names present to their values.                          *)
(***************************************************************************)

JStr(s) == [t |-> "string", s |-> s, n |-> 0]
JNum(n) == [t |-> "number", s |-> <<>>, n |-> n]
\* An object whose members are all strings, as map[string]string takes it
JStrMap(s) == [t |-> "strmap", s |-> s, n |-> 0]
\* An object whose members are arrays of strings
JArrMap(s) == [t |-> "arrmap", s |-> s, n |-> 0]

Malformed == [wf |-> FALSE, obj |-> [k \in {} |-> JNum(0)]]
Object(obj) == [wf |-> TRUE, obj |-> obj]

\* A syntax error or io.EOF from Decode, an *json.UnmarshalTypeError
DecodeErr == Err("decode", "", <<>>, <<>>)

\* The error of http.Client.PostForm or http.Client.Do
TransportErr == Err("transport", "", <<>>, <<>>)

Member(obj, k, type) == k \in DOMAIN obj /\ obj[k].t = type
Mistyped(obj, k, type) == k \in DOMAIN obj /\ obj[k].t # type

\* decoder.Decode for the n-th Decode on a body: the object read and the
\* error.  `typed` is the JSON type each known member must have; a member
\* of the wrong type is skipped and reported after the rest is stored.
Decode(body, n, typed) ==
    IF n > Len(body) \/ \E i \in 1..n : ~body[i].wf
    THEN [err |-> DecodeErr, obj |-> Malformed.obj]
    ELSE [err |-> IF \E k \in DOMAIN typed : Mistyped(body[n].obj, k, typed[k])
                  THEN DecodeErr ELSE NoErr,
          obj |-> body[n].obj]

AccessTyped ==
    [access_token |-> "string", token_type |-> "string", expires_in |-> "number",
     refresh_token |-> "string", scope |-> "string"]

FillAccess(obj, target) ==
    [Token |-> IF Member(obj, "access_token", "string")
               THEN obj.access_token.s ELSE target.Token,
     TokenType |-> IF Member(obj, "token_type", "string")
                   THEN obj.token_type.s ELSE target.TokenType,
     ExpiresIn |-> IF Member(obj, "expires_in", "number")
                   THEN obj.expires_in.n ELSE target.ExpiresIn,
     RefreshToken |-> IF Member(obj, "refresh_token", "string")
                      THEN obj.refresh_token.s ELSE target.RefreshToken,
     Scope |-> IF Member(obj, "scope", "string") THEN obj.scope.s ELSE target.Scope]

\* decoder.Decode(access)
DecodeAccess(body, n, target) ==
    LET d == Decode(body, n, AccessTyped) IN
    [err |-> d.err, val |-> FillAccess(d.obj, target)]

\* authError{Err}: the error text is "Authentication: " followed by Err
AuthError(e) == Err("auth", "", e, <<>>)

AuthErrorTyped == [error |-> "string"]

FillAuthError(obj, target) ==
    IF Member(obj, "error", "string") THEN AuthError(obj.error.s) ELSE target

\* decoder.Decode(authErr)
DecodeAuthError(body, n, target) ==
    LET d == Decode(body, n, AuthErrorTyped) IN
    [err |-> d.err, val |-> FillAuthError(d.obj, target)]

(***************************************************************************)
(* The client                                                              *)
(***************************************************************************)

\* new(access): every field at its zero value
ZeroAccess ==
    [Token |-> <<>>, TokenType |-> <<>>, ExpiresIn |-> 0,
     RefreshToken |-> <<>>, Scope |-> <<>>]

\* Client.auth before OAuth has run: a nil *auth
NilAuth == [nil |-> TRUE, clientID |-> <<>>, clientSecret |-> <<>>, redirectURI |-> <<>>]

NoGrant == [some |-> FALSE, grant |-> ZeroAccess]

NoRequest == [method |-> "", url |-> NoURL, authorization |-> <<>>, form |-> EmptyValues]

NoResponse == [fail |-> FALSE, status |-> 0, body |-> <<>>]

\* The record of a call: its name and arguments, the grant before it, the
\* HTTP request it issued (sent) and the answer, and what it returned
\* (returned is FALSE when it panicked instead).
NoCall ==
    [op |-> "none", code |-> <<>>, creds |-> NilAuth, scope |-> <<>>, oauth |-> FALSE,
     before |-> ZeroAccess, sent |-> FALSE, req |-> NoRequest, resp |-> NoResponse,
     returned |-> FALSE, err |-> NoErr, url |-> NoURL]

NotEncoded ==
    [done |-> FALSE, nil |-> FALSE, err |-> NoErr, payload |-> EmptyValues, url |-> NoURL]

Bearer == <<"B", "e", "a", "r", "e", "r">>
CodeText == <<"c", "o", "d", "e">>
StateText == <<"s", "t", "a", "t", "e">>
ScopeText == <<"s", "c", "o", "p", "e">>
ClientIdText == <<"c", "l", "i", "e", "n", "t", "_", "i", "d">>
ClientSecretText == <<"c", "l", "i", "e", "n", "t", "_", "s", "e", "c", "r", "e", "t">>
RedirectUriText == <<"r", "e", "d", "i", "r", "e", "c", "t", "_", "u", "r", "i">>
ResponseTypeText == <<"r", "e", "s", "p", "o", "n", "s", "e", "_", "t", "y", "p", "e">>
GrantTypeText == <<"g", "r", "a", "n", "t", "_", "t", "y", "p", "e">>
AuthorizationCodeText ==
    <<"a", "u", "t", "h", "o", "r", "i", "z", "a", "t", "i", "o", "n", "_", "c", "o", "d", "e">>

\* const State = "go-uber"
State == <<"g", "o", "-", "u", "b", "e", "r">>

\* Mutant of authFields: the secret is tagged client_secret, not "-".
authFields_SecretTagged(a) ==
    << StrField("clientID", ClientIdText, TRUE, a.clientID),
       StrField("clientSecret", ClientSecretText, FALSE, a.clientSecret),
       StrField("redirectURI", RedirectUriText, TRUE, a.redirectURI) >>

\* type auth struct
authFields(a) ==
    << StrField("clientID", ClientIdText, TRUE, a.clientID),
       StrField("clientSecret", SkipTag, FALSE, a.clientSecret),
       StrField("redirectURI", RedirectUriText, TRUE, a.redirectURI) >>

\* type authReq struct
authReq(a, responseType, scope, state) ==
    << StructField("auth", <<>>, FALSE, authFields(a)),
       StrField("responseType", ResponseTypeText, TRUE, responseType),
       StrField("scope", ScopeText, FALSE, scope),
       StrField("state", StateText, FALSE, state) >>

\* Mutant of accReq: the code is not required.
accReq_CodeOptional(a, clientSecret, grantType, code) ==
    << StructField("auth", <<>>, FALSE, authFields(a)),
       StrField("clientSecret", ClientSecretText, TRUE, clientSecret),
       StrField("grantType", GrantTypeText, TRUE, grantType),
       StrField("code", CodeText, FALSE, code) >>

\* type accReq struct
accReq(a, clientSecret, grantType, code) ==
    << StructField("auth", <<>>, FALSE, authFields(a)),
       StrField("clientSecret", ClientSecretText, TRUE, clientSecret),
       StrField("grantType", GrantTypeText, TRUE, grantType),
       StrField("code", CodeText, TRUE, code) >>

\* strings.Join(elems, sep)
RECURSIVE Join(_, _)
Join(elems, sep) ==
    IF elems = <<>> THEN <<>>
    ELSE IF Len(elems) = 1 THEN elems[1]
    ELSE elems[1] \o sep \o Join(Tail(elems), sep)

\* Mutant of OAuthCall: the client secret is not stored.
OAuthCall_ForgetsSecret(clientID, clientSecret, redirect, scope) ==
    LET a == [nil |-> FALSE, clientID |-> clientID, clientSecret |-> <<>>,
              redirectURI |-> redirect]
        r == generateRequestURL("AuthHost", "authorize",
                 Data(authReq(a, CodeText, Join(scope, <<" ">>), State)))
    IN  [auth |-> a, err |-> r.err, url |-> r.url]

\* Client.OAuth: the session is replaced before the URL is built, whatever
\* the encoder then answers.
OAuthCall(clientID, clientSecret, redirect, scope) ==
    LET a == [nil |-> FALSE, clientID |-> clientID, clientSecret |-> clientSecret,
              redirectURI |-> redirect]
        r == generateRequestURL("AuthHost", "authorize",
                 Data(authReq(a, CodeText, Join(scope, <<" ">>), State)))
    IN  [auth |-> a, err |-> r.err, url |-> r.url]

\* Mutant of ExchangeResult: the body is decoded into the client's grant
\* itself, so whatever was decoded stays when the call fails.
ExchangeResult_DecodesInPlace(resp, grant) ==
    IF resp.fail THEN [access |-> grant, err |-> TransportErr]
    ELSE
    LET first == DecodeAccess(resp.body, 1, grant)
        ok == resp.status = 200
        authErr == DecodeAuthError(resp.body, IF ok THEN 2 ELSE 1, AuthError(<<>>))
    IN  IF ok /\ first.err # NoErr THEN [access |-> first.val, err |-> first.err]
        ELSE IF ok /\ first.val.TokenType = Bearer
        THEN [access |-> first.val, err |-> NoErr]
        ELSE [access |-> IF ok THEN first.val ELSE grant, err |-> authErr.val]

\* Mutant of ExchangeResult: the refresh token of the grant is not kept.
ExchangeResult_DropsRefreshToken(resp, grant) ==
    IF resp.fail THEN [access |-> grant, err |-> TransportErr]
    ELSE
    LET first == DecodeAccess(resp.body, 1, ZeroAccess)
        ok == resp.status = 200
        authErr == DecodeAuthError(resp.body, IF ok THEN 2 ELSE 1, AuthError(<<>>))
    IN  IF ok /\ first.err # NoErr THEN [access |-> grant, err |-> first.err]
        ELSE IF ok /\ first.val.TokenType = Bearer
        THEN [access |-> [first.val EXCEPT !.RefreshToken = <<>>], err |-> NoErr]
        ELSE [access |-> grant, err |-> authErr.val]

\* Mutant of ExchangeResult: the body of a rejection is not decoded.
ExchangeResult_EmptyRejection(resp, grant) ==
    IF resp.fail THEN [access |-> grant, err |-> TransportErr]
    ELSE
    LET first == DecodeAccess(resp.body, 1, ZeroAccess)
        ok == resp.status = 200
    IN  IF ok /\ first.err # NoErr THEN [access |-> grant, err |-> first.err]
        ELSE IF ok /\ first.val.TokenType = Bearer
        THEN [access |-> first.val, err |-> NoErr]
        ELSE [access |-> grant, err |-> AuthError(<<>>)]

\* Mutant of ExchangeResult: a grant that is not a Bearer grant is dropped
\* without an error.
ExchangeResult_SilentNonBearer(resp, grant) ==
    IF resp.fail THEN [access |-> grant, err |-> TransportErr]
    ELSE
    LET first == DecodeAccess(resp.body, 1, ZeroAccess)
        ok == resp.status = 200
        authErr == DecodeAuthError(resp.body, 1, AuthError(<<>>))
    IN  IF ok /\ first.err # NoErr THEN [access |-> grant, err |-> first.err]
        ELSE IF ok /\ first.val.TokenType = Bearer
        THEN [access |-> first.val, err |-> NoErr]
        ELSE IF ok THEN [access |-> grant, err |-> NoErr]
        ELSE [access |-> grant, err |-> authErr.val]

\* What SetAccessToken does with the answer to its POST: the grant to keep
\* and the error to return.
ExchangeResult(resp, grant) ==
    IF resp.fail THEN [access |-> grant, err |-> TransportErr]
    ELSE
    LET first == DecodeAccess(resp.body, 1, ZeroAccess)
        ok == resp.status = 200
        \* on 200 the decoder has already read one text
        authErr == DecodeAuthError(resp.body, IF ok THEN 2 ELSE 1, AuthError(<<>>))
    IN  IF ok /\ first.err # NoErr THEN [access |-> grant, err |-> first.err]
        ELSE IF ok /\ first.val.TokenType = Bearer
        THEN [access |-> first.val, err |-> NoErr]
        ELSE [access |-> grant, err |-> authErr.val]

\* SetAccessToken evaluates *c.auth: a nil pointer dereference when OAuth
\* has never run.
DerefPanics(a) == a.nil

\* Mutant of AuthorizedRequest: the credential is inferred from what the
\* client holds, the grant when there is one and the server token otherwise.
AuthorizedRequest_Infers(method, url, oauth, token, grant) ==
    [method |-> "GET", url |-> url, form |-> EmptyValues,
     authorization |->
        IF grant.Token # <<>> THEN Bearer \o <<" ">> \o grant.Token
        ELSE <<"T", "o", "k", "e", "n", " ">> \o token]

\* sendRequestWithAuthorization: the request it hands to http.Client.Do.
\* The method is the literal "GET".
AuthorizedRequest(method, url, oauth, token, grant) ==
    [method |-> "GET", url |-> url, form |-> EmptyValues,
     authorization |->
        IF oauth THEN Bearer \o <<" ">> \o grant.Token
        ELSE <<"T", "o", "k", "e", "n", " ">> \o token]

(***************************************************************************)
(* The answers of the servers                                              *)
(***************************************************************************)

TokA == <<"t", "o", "k", "A">>
TokB == <<"t", "o", "k", "B">>
InvalidGrant == <<"i", "n", "v", "a", "l", "i", "d", "_", "g", "r", "a", "n", "t">>
Profile == <<"p", "r", "o", "f", "i", "l", "e">>
History == <<"h", "i", "s", "t", "o", "r", "y">>

EmptyObj == [k \in {} |-> JNum(0)]

\* The members besides access_token and token_type: all there, none there,
\* or expires_in of the wrong type.
RestOfGrant ==
    { ("expires_in" :> JNum(2592000)) @@ ("refresh_token" :> JStr(<<"r">>))
          @@ ("scope" :> JStr(Profile)),
      EmptyObj,
      ("expires_in" :> JStr(<<"3", "0", "d">>)) @@ ("scope" :> JStr(Profile)) }

GrantObjects ==
    { ("access_token" :> JStr(tok)) @@ ("token_type" :> JStr(type)) @@ rest :
        tok \in {TokA, TokB}, type \in {Bearer, <<"m", "a", "c">>}, rest \in RestOfGrant }

ErrorObjects ==
    { EmptyObj, "error" :> JStr(InvalidGrant), "error" :> JStr(<<"d", "e", "n", "y">>),
      "error" :> JNum(7),
      "access_token" :> JStr(TokA),
      ("access_token" :> JNum(7)) @@ ("token_type" :> JStr(Bearer)) }

TokenBodies ==
    {<<>>, <<Malformed>>}
    \cup {<<Object(o)>> : o \in GrantObjects \cup ErrorObjects}
    \cup {<<Object(o), Object("error" :> JStr(InvalidGrant))>> :
            o \in {g \in GrantObjects : g.access_token.s = TokA /\ "refresh_token" \in DOMAIN g}}

TokenResponses ==
    {[fail |-> TRUE, status |-> 0, body |-> <<>>]}
    \cup [fail : {FALSE}, status : {200, 400}, body : TokenBodies]

ApiBodies ==
    {<<>>, <<Malformed>>, <<Object(EmptyObj)>>,
     <<Object("message" :> JStr(<<"n", "o">>))>>,
     <<Object("code" :> JStr(<<"b", "a", "d">>))>>}

ApiResponses ==
    {[fail |-> TRUE, status |-> 0, body |-> <<>>]}
    \cup [fail : {FALSE}, status : {200, 404, 500}, body : ApiBodies]

\* The answer is HTTP 200 with one complete, well-typed Bearer grant.
IsBearerGrant(resp) ==
    /\ ~resp.fail
    /\ resp.status = 200
    /\ resp.body # <<>>
    /\ resp.body[1].wf
    /\ \A k \in DOMAIN AccessTyped :
          k \in DOMAIN resp.body[1].obj => resp.body[1].obj[k].t = AccessTyped[k]
    /\ Member(resp.body[1].obj, "token_type", "string")
    /\ resp.body[1].obj.token_type.s = Bearer

\* The grant such an answer carries, read off the JSON object: a member
\* that is absent stands for the zero value.
GrantOf(resp) ==
    LET o == resp.body[1].obj IN
    [Token |-> IF "access_token" \in DOMAIN o THEN o.access_token.s ELSE <<>>,
     TokenType |-> o.token_type.s,
     ExpiresIn |-> IF "expires_in" \in DOMAIN o THEN o.expires_in.n ELSE 0,
     RefreshToken |-> IF "refresh_token" \in DOMAIN o THEN o.refresh_token.s ELSE <<>>,
     Scope |-> IF "scope" \in DOMAIN o THEN o.scope.s ELSE <<>>]

(***************************************************************************)
(* Spec: one client and the calls made on it, one after the other.         *)
(***************************************************************************)

Cid == <<"c", "i", "d">>
Sec == <<"s", "e", "c">>
Uri == <<"u", "r", "i">>

MaxRedirects == 2

\* A redirect request not yet received
NoRedirect == [pc |-> "idle", state |-> <<>>, code |-> <<>>, val |-> NoErr]

\* No SetAccessToken and no request run concurrently.
ConcIdle ==
    /\ wPc = "idle"
    /\ wResp = NoResponse
    /\ fresh = ZeroAccess
    /\ rPc = "idle"
    /\ rOld = ZeroAccess
    /\ rPtr = [grant |-> ZeroAccess, racy |-> FALSE]
    /\ raced = FALSE

\* AutOAuth has not been called.
AutoIdle ==
    /\ mainPc = "idle"
    /\ mainRet = NoErr
    /\ autoErr = NoErr
    /\ listener = "off"
    /\ handlers = [h \in 1..MaxRedirects |-> NoRedirect]
    /\ httpDone = FALSE

Init ==
    /\ desc = <<>>
    /\ encOut = NotEncoded
    /\ serverToken \in {<<>>, <<"s", "t">>}   \* NewClient(serverToken)
    /\ access = ZeroAccess
    /\ auth = NilAuth
    /\ panicked = FALSE
    /\ last = NoCall
    /\ granted = NoGrant
    /\ AutoIdle
    /\ ConcIdle
    /\ failed = {}

OAuth ==
    /\ ~panicked
    /\ \E clientID \in {<<>>, Cid}, clientSecret \in {<<>>, Sec}, redirect \in {<<>>, Uri},
          scope \in {<<>>, <<Profile>>, <<Profile, History>>} :
          LET r == OAuthCall(clientID, clientSecret, redirect, scope) IN
          /\ auth' = r.auth
          /\ last' = [NoCall EXCEPT !.op = "OAuth",
                                    !.creds = [nil |-> FALSE, clientID |-> clientID,
                                               clientSecret |-> clientSecret,
                                               redirectURI |-> redirect],
                                    !.scope = scope, !.before = access,
                                    !.returned = TRUE, !.err = r.err, !.url = r.url]
    /\ UNCHANGED <<desc, encOut, serverToken, failed, concVars, access, panicked, granted, autoVars>>

\* Mutant of Exchange: once a call has failed, the next one returns the same
\* error whatever answer it receives.
Exchange_Sticky(authorizationCode, responses) ==
    LET call == [NoCall EXCEPT !.op = "SetAccessToken", !.code = authorizationCode,
                               !.creds = auth, !.before = access]
        enc == generateRequestURLHelper(
                   accReq(auth, auth.clientSecret, AuthorizationCodeText,
                          authorizationCode))
    IN
    IF DerefPanics(auth)
    THEN /\ panicked' = TRUE
         /\ last' = call
         /\ UNCHANGED <<access, granted>>
    ELSE IF enc.err # NoErr
    THEN /\ last' = [call EXCEPT !.returned = TRUE, !.err = enc.err]
         /\ UNCHANGED <<access, granted, panicked>>
    ELSE \E resp \in responses :
         LET sticky == last.op = "SetAccessToken" /\ last.err # NoErr
             r == IF sticky THEN [access |-> access, err |-> last.err]
                  ELSE ExchangeResult(resp, access)
         IN
         /\ access' = r.access
         /\ granted' = IF IsBearerGrant(resp) /\ ~sticky
                       THEN [some |-> TRUE, grant |-> GrantOf(resp)]
                       ELSE granted
         /\ last' = [call EXCEPT
                       !.sent = TRUE,
                       !.req = [method |-> "POST",
                                url |-> [base |-> "AuthHost", endpoint |-> "token",
                                         query |-> <<>>],
                                authorization |-> <<>>,
                                form |-> enc.payload],
                       !.resp = resp, !.returned = TRUE, !.err = r.err]
         /\ UNCHANGED panicked

\* Client.SetAccessToken(authorizationCode), the token endpoint answering
\* with one of `responses` when the POST is made.
Exchange(authorizationCode, responses) ==
    LET call == [NoCall EXCEPT !.op = "SetAccessToken", !.code = authorizationCode,
                               !.creds = auth, !.before = access]
        enc == generateRequestURLHelper(
                   accReq(auth, auth.clientSecret, AuthorizationCodeText,
                          authorizationCode))
    IN
    IF DerefPanics(auth)
    THEN /\ panicked' = TRUE
         /\ last' = call
         /\ UNCHANGED <<access, granted>>
    ELSE IF enc.err # NoErr
    THEN /\ last' = [call EXCEPT !.returned = TRUE, !.err = enc.err]
         /\ UNCHANGED <<access, granted, panicked>>
    ELSE \E resp \in responses :
         LET r == ExchangeResult(resp, access) IN
         /\ access' = r.access
         /\ granted' = IF IsBearerGrant(resp)
                       THEN [some |-> TRUE, grant |-> GrantOf(resp)]
                       ELSE granted
         /\ last' = [call EXCEPT
                       !.sent = TRUE,
                       !.req = [method |-> "POST",
                                url |-> [base |-> "AuthHost", endpoint |-> "token",
                                         query |-> <<>>],
                                authorization |-> <<>>,
                                form |-> enc.payload],
                       !.resp = resp, !.returned = TRUE, !.err = r.err]
         /\ UNCHANGED panicked

SetAccessToken ==
    /\ ~panicked
    /\ \E authorizationCode \in {<<>>, <<"a", "c">>} :
          Exchange(authorizationCode, TokenResponses)
    /\ UNCHANGED <<desc, encOut, serverToken, failed, concVars, auth, autoVars>>

\* &uberError{Message: fmt.Sprintf("Endpoint '%s' not found.", endpoint)}
NotFoundErr(endpoint) == Err("notfound", endpoint, <<>>, <<>>)

\* errors.New("uber: an unidentified error occured")
UnidentifiedErr == Err("unidentified", "", <<>>, <<>>)

\* uberError{Message, Code}
UberError(message, code) == Err("uber", "", message, code)

UberErrorTyped == [message |-> "string", code |-> "string", fields |-> "strmap"]

FillUberError(obj, target) ==
    [UberError(IF Member(obj, "message", "string") THEN obj.message.s ELSE target.text,
               IF Member(obj, "code", "string") THEN obj.code.s ELSE target.code)
        EXCEPT !.fields = IF Member(obj, "fields", "strmap")
                          THEN obj.fields.s ELSE target.fields]

\* decoder.Decode(uberErr)
DecodeUberError(body, n, target) ==
    LET d == Decode(body, n, UberErrorTyped) IN
    [err |-> d.err, val |-> FillUberError(d.obj, target)]

\* Mutant of HttpResult: an error answer without message and code is taken
\* for a success.
HttpResult_UnidentifiedIsNil(endpoint, resp, outNil) ==
    IF resp.fail THEN TransportErr
    ELSE IF resp.status = 404 THEN NotFoundErr(endpoint)
    ELSE IF resp.status >= 300
    THEN LET d == DecodeUberError(resp.body, 1, UberError(<<>>, <<>>))
         IN  IF d.err # NoErr THEN d.err
             ELSE IF d.val.text = <<>> /\ d.val.code = <<>> THEN NoErr
             ELSE d.val
    ELSE IF outNil \/ resp.body = <<>> \/ ~resp.body[1].wf THEN DecodeErr
    ELSE NoErr

\* httpReqDo after the request has been sent: the error it returns for the
\* answer resp.  outNil: the caller passed a nil `out`, which no Decode
\* accepts.
HttpResult(endpoint, resp, outNil) ==
    IF resp.fail THEN TransportErr
    ELSE IF resp.status = 404 THEN NotFoundErr(endpoint)
    ELSE IF resp.status >= 300
    THEN LET d == DecodeUberError(resp.body, 1, UberError(<<>>, <<>>))
         IN  IF d.err # NoErr THEN d.err
             ELSE IF d.val.text = <<>> /\ d.val.code = <<>> THEN UnidentifiedErr
             ELSE d.val
    ELSE IF outNil \/ resp.body = <<>> \/ ~resp.body[1].wf THEN DecodeErr
    ELSE NoErr

\* Client.httpReqDo, as the step of the endpoint method `op`, the server
\* answering with one of `responses`.
HttpReqDoOn(op, method, endpoint, data, oauth, outNil, responses) ==
    LET call == [NoCall EXCEPT !.op = op, !.creds = auth, !.oauth = oauth,
                               !.before = access, !.returned = TRUE]
        u == generateRequestURL("UberAPIHost", endpoint, data)
    IN
    /\ ~panicked
    /\ IF u.err # NoErr
       THEN last' = [call EXCEPT !.err = u.err]
       ELSE \E resp \in responses :
               last' = [call EXCEPT
                          !.sent = TRUE,
                          !.req = AuthorizedRequest(method, u.url, oauth, serverToken, access),
                          !.resp = resp,
                          !.err = HttpResult(endpoint, resp, outNil)]
    /\ UNCHANGED <<desc, encOut, serverToken, failed, concVars, access, auth, panicked, granted, autoVars>>

\* Client.httpReqDo, as the step of the endpoint method `op`.
HttpReqDo(op, method, endpoint, data, oauth, outNil) ==
    HttpReqDoOn(op, method, endpoint, data, oauth, outNil, ApiResponses)

\* type productsReq struct
productsReq(latitude, longitude) ==
    << FloatField("latitude", <<"l", "a", "t", "i", "t", "u", "d", "e">>, TRUE, latitude),
       FloatField("longitude", <<"l", "o", "n", "g", "i", "t", "u", "d", "e">>, TRUE, longitude) >>

GetProducts ==
    \E lat \in {0, 377}, lon \in {-1224} :
        HttpReqDo("GetProducts", "GET", "products", Data(productsReq(lat, lon)), FALSE, FALSE)

GetUserProfile ==
    HttpReqDo("GetUserProfile", "GET", "me", NilData, TRUE, FALSE)

Next == OAuth \/ SetAccessToken \/ GetProducts \/ GetUserProfile

Spec == Init /\ [][Next]_vars

(***************************************************************************)
(* EncSpec: a description is declared field by field, then encoded.        *)
(***************************************************************************)

EncInit ==
    /\ desc = <<>>
    /\ encOut = NotEncoded
    /\ serverToken = <<>>
    /\ access = ZeroAccess
    /\ auth = NilAuth
    /\ panicked = FALSE
    /\ last = NoCall
    /\ granted = NoGrant
    /\ AutoIdle
    /\ ConcIdle
    /\ failed = {}

\* type timesReq struct
timesReq(startLatitude, startLongitude, customerUuid, productID) ==
    << FloatField("startLatitude",
                  <<"s", "t", "a", "r", "t", "_", "l", "a", "t", "i", "t", "u", "d", "e">>,
                  TRUE, startLatitude),
       FloatField("startLongitude",
                  <<"s", "t", "a", "r", "t", "_", "l", "o", "n", "g", "i", "t", "u", "d", "e">>,
                  TRUE, startLongitude),
       StrField("customerUuid",
                <<"c", "u", "s", "t", "o", "m", "e", "r", "_", "u", "u", "i", "d">>,
                FALSE, customerUuid),
       StrField("productID", <<"p", "r", "o", "d", "u", "c", "t", "_", "i", "d">>,
                FALSE, productID) >>

\* type historyReq struct
historyReq(offset, limit) ==
    << IntField("offset", <<"o", "f", "f", "s", "e", "t">>, TRUE, offset),
       IntField("limit", <<"l", "i", "m", "i", "t">>, TRUE, limit) >>

\* The credentials a session may hold
Sessions ==
    [nil : {FALSE}, clientID : {<<>>, Cid}, clientSecret : {<<>>, Sec}, redirectURI : {Uri}]

\* The descriptions the methods of the client hand to the encoder: GetTimes,
\* GetProducts, GetUserActivity, OAuth and SetAccessToken.
Requests ==
    {timesReq(377, -1224, u, pid) :
        u \in {<<>>, <<"u", "1">>},
        pid \in {<<>>, <<"p", "1">>, <<"k", "=", "v", "&", " ", "+", "%">>}}
    \cup {productsReq(377, -1224), historyReq(0, 5)}
    \cup {authReq(a, CodeText, Join(scope, <<" ">>), State) :
             a \in Sessions, scope \in {<<>>, <<Profile, History>>}}
    \cup {accReq(a, a.clientSecret, AuthorizationCodeText, code) :
             a \in Sessions, code \in {<<>>, <<"a", "c">>}}

\* generateRequestURL(base, endpoint, data) for the description desc; the
\* error and the payload of its call of generateRequestURLHelper are kept.
Encode ==
    /\ ~encOut.done
    /\ encOut' = [done |-> TRUE, nil |-> FALSE,
                  url |-> generateRequestURL("UberAPIHost", "endpoint", Data(desc)).url]
                    @@ generateRequestURLHelper(desc)
    /\ UNCHANGED <<desc, serverToken, failed, concVars, access, auth, panicked, last, granted, autoVars>>

\* The caller writes the next field of the description.
Declare ==
    /\ ~encOut.done
    /\ Size(desc) < MaxNodes
    /\ \E depth \in 1..MaxNodes, shape \in Shapes :
          /\ HasStructAt(desc, depth)
          /\ desc' = DeclareAt(desc, depth, 1, shape)
    /\ UNCHANGED <<encOut, serverToken, failed, concVars, access, auth, panicked, last, granted, autoVars>>

\* The caller hands one of the client's own descriptions to the encoder.
DeclareRequest ==
    /\ ~encOut.done
    /\ desc = <<>>
    /\ desc' \in Requests
    /\ UNCHANGED <<encOut, serverToken, failed, concVars, access, auth, panicked, last, granted, autoVars>>

\* generateRequestURL(base, endpoint, nil)
EncodeNil ==
    /\ ~encOut.done
    /\ desc = <<>>
    /\ encOut' = [done |-> TRUE, nil |-> TRUE, err |-> NoErr, payload |-> EmptyValues,
                  url |-> generateRequestURL("UberAPIHost", "endpoint", NilData).url]
    /\ UNCHANGED <<desc, serverToken, failed, concVars, access, auth, panicked, last, granted, autoVars>>

EncNext == Declare \/ DeclareRequest \/ Encode \/ EncodeNil

EncSpec == EncInit /\ [][EncNext]_vars

(***************************************************************************)
(* FailSpec: descriptions of up to MaxFailNodes fields in which several    *)
(* fields may be invalid at once, at any depth, built field by field and   *)
(* then encoded.                                                           *)
(***************************************************************************)

MaxFailNodes == 4

\* A required string that is empty and one that is not, an optional empty
\* string, a field of an unsupported kind, the first and the last of these
\* also tagged "-", and a nested struct with and without the tag "-".
FailShapes ==
    { StrField("", <<"a">>, TRUE, <<>>), StrField("", <<"a">>, TRUE, <<"x">>),
      StrField("", <<"b">>, FALSE, <<>>), BoolField("", <<"a">>, FALSE),
      StrField("", SkipTag, TRUE, <<>>), BoolField("", SkipTag, FALSE),
      StructField("", <<>>, FALSE, <<>>), StructField("", SkipTag, FALSE, <<>>) }

\* The caller writes the next field of the description.
DeclareInvalid ==
    /\ ~encOut.done
    /\ Size(desc) < MaxFailNodes
    /\ \E depth \in 1..MaxFailNodes, shape \in FailShapes :
          /\ HasStructAt(desc, depth)
          /\ desc' = DeclareAt(desc, depth, 1, shape)
    /\ UNCHANGED <<encOut, serverToken, failed, concVars, access, auth, panicked, last,
                   granted, autoVars>>

FailNext == DeclareInvalid \/ Encode

FailSpec == EncInit /\ [][FailNext]_vars

(***************************************************************************)
(* AutoSpec: one call of AutOAuth.  The caller's goroutine, the goroutine  *)
(* running http.ListenAndServe and one goroutine per redirect request the  *)
(* server receives run interleaved; httpErr is unbuffered, so a send on it *)
(* completes only together with the receive in AutOAuth's select.          *)
(***************************************************************************)

\* fmt.Errorf("uber: evidence of tampering--incorrect state %s", state)
TamperErr(state) == Err("tamper", "", state, <<>>)

\* The error of http.ListenAndServe, the error of open.Run
ListenErr == Err("listen", "", <<>>, <<>>)
OpenErr == Err("open", "", <<>>, <<>>)

\* What the token endpoint answers during the flow
AutoResponses ==
    { r \in TokenResponses :
        \/ r.fail
        \/ r.body = <<Malformed>>
        \/ /\ r.status = 400
           /\ r.body = <<Object("error" :> JStr(InvalidGrant))>>
        \/ /\ r.status = 200
           /\ Len(r.body) = 1 /\ r.body[1].wf
           /\ Member(r.body[1].obj, "access_token", "string")
           /\ r.body[1].obj.access_token.s = TokA
           /\ "refresh_token" \in DOMAIN r.body[1].obj }

AutoInit ==
    /\ desc = <<>>
    /\ encOut = NotEncoded
    /\ serverToken = <<>>
    /\ access = ZeroAccess
    /\ auth = NilAuth
    /\ panicked = FALSE
    /\ last = NoCall
    /\ granted = NoGrant
    /\ AutoIdle
    /\ ConcIdle
    /\ failed = {}

\* AutOAuth up to `go func() {...}()`: the call of OAuth, the early return,
\* the registration of the handler and the start of the listener goroutine.
AutOAuth ==
    /\ ~panicked
    /\ mainPc = "idle"
    /\ \E clientID \in {<<>>, Cid}, clientSecret \in {<<>>, Sec}, redirect \in {<<>>, Uri} :
          LET r == OAuthCall(clientID, clientSecret, redirect, <<Profile>>) IN
          /\ auth' = r.auth
          /\ autoErr' = r.err
          /\ last' = [NoCall EXCEPT !.op = "OAuth", !.creds = r.auth, !.scope = <<Profile>>,
                                    !.before = access, !.returned = TRUE,
                                    !.err = r.err, !.url = r.url]
          /\ IF r.err # NoErr
             THEN /\ mainPc' = "returned"
                  /\ mainRet' = NoErr          \* `return nil`
                  /\ UNCHANGED listener
             ELSE /\ mainPc' = "opening"
                  /\ listener' = "starting"
                  /\ UNCHANGED mainRet
    /\ UNCHANGED <<desc, encOut, serverToken, failed, concVars, access, panicked, granted, handlers, httpDone>>

\* http.ListenAndServe(Port, nil) binds the port and serves, or returns at
\* once with an error.
ListenAndServe ==
    /\ ~panicked
    /\ listener = "starting"
    /\ listener' \in {"serving", "failed"}
    /\ UNCHANGED <<desc, encOut, serverToken, failed, concVars, access, auth, panicked, last, granted,
                   mainPc, mainRet, autoErr, handlers, httpDone>>

\* `case err := <-httpErr: return err` meeting a send of v.
Receive(v) ==
    /\ mainPc = "selecting"
    /\ mainPc' = "returned"
    /\ mainRet' = v

\* `httpErr <- http.ListenAndServe(Port, nil)` once the call has returned
ListenerSend ==
    /\ ~panicked
    /\ listener = "failed"
    /\ Receive(ListenErr)
    /\ listener' = "done"
    /\ UNCHANGED <<desc, encOut, serverToken, failed, concVars, access, auth, panicked, last, granted,
                   autoErr, handlers, httpDone>>

\* `err = open.Run(urlString)`
OpenRun ==
    /\ ~panicked
    /\ mainPc = "opening"
    /\ autoErr' \in {NoErr, OpenErr}
    /\ mainPc' = "opened"
    /\ UNCHANGED <<desc, encOut, serverToken, failed, concVars, access, auth, panicked, last, granted,
                   mainRet, listener, handlers, httpDone>>

\* `if err != nil { return err }`, then the select is entered
CheckOpen ==
    /\ ~panicked
    /\ mainPc = "opened"
    /\ IF autoErr # NoErr
       THEN mainPc' = "returned" /\ mainRet' = autoErr
       ELSE mainPc' = "selecting" /\ UNCHANGED mainRet
    /\ UNCHANGED <<desc, encOut, serverToken, failed, concVars, access, auth, panicked, last, granted,
                   autoErr, listener, handlers, httpDone>>

\* `case <-httpDone: return nil`
SelectDone ==
    /\ ~panicked
    /\ mainPc = "selecting"
    /\ httpDone
    /\ mainPc' = "returned"
    /\ mainRet' = NoErr
    /\ UNCHANGED <<desc, encOut, serverToken, failed, concVars, access, auth, panicked, last, granted,
                   autoErr, listener, handlers, httpDone>>

\* Where the handler goes after the check of the state: the check of the code
AfterState(code) == IF code = <<>> THEN "sendNoCode" ELSE "exchange"

\* The server hands a redirect request to the handler, which reads the
\* state and stops at its first send on httpErr or at SetAccessToken.
Arrive(h) ==
    /\ ~panicked
    /\ listener = "serving"
    /\ handlers[h].pc = "idle"
    /\ \A g \in 1..(h - 1) : handlers[g].pc # "idle"
    /\ \E state \in {State, <<"x">>}, code \in {<<>>, <<"a", "c">>} :
          handlers' = [handlers EXCEPT ![h] =
                          [pc |-> IF state # State THEN "sendTamper" ELSE AfterState(code),
                           state |-> state, code |-> code, val |-> NoErr]]
    /\ UNCHANGED <<desc, encOut, serverToken, failed, concVars, access, auth, panicked, last, granted,
                   mainPc, mainRet, autoErr, listener, httpDone>>

\* The handler's sends on httpErr: the tampering error, the missing code,
\* the error of SetAccessToken.  None of them ends the handler.
HandlerSend(h) ==
    /\ ~panicked
    /\ handlers[h].pc \in {"sendTamper", "sendNoCode", "sendErr"}
    /\ Receive(CASE handlers[h].pc = "sendTamper" -> TamperErr(handlers[h].state)
                 [] handlers[h].pc = "sendNoCode" -> UnidentifiedErr
                 [] OTHER -> handlers[h].val)
    /\ handlers' = [handlers EXCEPT ![h].pc =
                       CASE handlers[h].pc = "sendTamper" -> AfterState(handlers[h].code)
                         [] handlers[h].pc = "sendNoCode" -> "exchange"
                         [] OTHER -> "respond"]
    /\ UNCHANGED <<desc, encOut, serverToken, failed, concVars, access, auth, panicked, last, granted,
                   autoErr, listener, httpDone>>

\* `err = c.SetAccessToken(code)`: err is the variable of AutOAuth.
HandlerExchange(h) ==
    /\ ~panicked
    /\ handlers[h].pc = "exchange"
    /\ Exchange(handlers[h].code, AutoResponses)
    /\ autoErr' = last'.err
    /\ handlers' = [handlers EXCEPT ![h].pc = "checkErr"]
    /\ UNCHANGED <<desc, encOut, serverToken, failed, concVars, auth, mainPc, mainRet, listener, httpDone>>

\* `if err != nil { httpErr <- err }`: err is read again, after whatever
\* the other goroutines have written to it.
HandlerCheckErr(h) ==
    /\ ~panicked
    /\ handlers[h].pc = "checkErr"
    /\ handlers' = [handlers EXCEPT ![h].pc = IF autoErr # NoErr THEN "sendErr" ELSE "respond",
                                    ![h].val = autoErr]
    /\ UNCHANGED <<desc, encOut, serverToken, failed, concVars, access, auth, panicked, last, granted,
                   mainPc, mainRet, autoErr, listener, httpDone>>

\* fmt.Fprintf(w, ...) and close(httpDone): closing a closed channel panics.
Respond(h) ==
    /\ ~panicked
    /\ handlers[h].pc = "respond"
    /\ handlers' = [handlers EXCEPT ![h].pc = "done"]
    /\ IF httpDone THEN panicked' = TRUE /\ UNCHANGED httpDone
       ELSE httpDone' = TRUE /\ UNCHANGED panicked
    /\ UNCHANGED <<desc, encOut, serverToken, failed, concVars, access, auth, last, granted,
                   mainPc, mainRet, autoErr, listener>>

AutoNext ==
    \/ AutOAuth
    \/ ListenAndServe
    \/ ListenerSend
    \/ OpenRun
    \/ CheckOpen
    \/ SelectDone
    \/ \E h \in 1..MaxRedirects : Arrive(h)
    \/ \E h \in 1..MaxRedirects : HandlerSend(h)
    \/ \E h \in 1..MaxRedirects : HandlerExchange(h)
    \/ \E h \in 1..MaxRedirects : HandlerCheckErr(h)
    \/ \E h \in 1..MaxRedirects : Respond(h)

AutoSpec == AutoInit /\ [][AutoNext]_vars

(***************************************************************************)
(* RaceSpec: one client shared by two goroutines, one running             *)
(* SetAccessToken and one sending an oauth request (GetUserProfile).       *)
(* Neither takes a lock: SetAccessToken assigns c.access (auth.go:154) and *)
(* sendRequestWithAuthorization reads c.Token (uber.go:369) with nothing   *)
(* ordering the two.  A goroutine that began after the assignment sees the *)
(* grant assigned.  One that was already running when c.access was         *)
(* assigned races with it: by the Go memory model its load of c.access     *)
(* yields the previous or the new pointer, and having loaded the new       *)
(* pointer does not order the decoder's write of Token before its read of  *)
(* Token, which then yields the decoded text or the zero value new(access) *)
(* left there.                                                             *)
(***************************************************************************)

RaceInit == Init

RaceCode == <<"a", "c">>

\* The answers of the token endpoint in RaceSpec: every complete Bearer
\* grant, and a transport failure.
RaceResponses ==
    { r \in TokenResponses :
        \/ r.fail
        \/ /\ IsBearerGrant(r)
           /\ "refresh_token" \in DOMAIN r.body[1].obj }

\* The call record of a SetAccessToken that posted `payload` and got resp.
Posted(payload, resp, err) ==
    [NoCall EXCEPT !.op = "SetAccessToken", !.code = RaceCode, !.creds = auth,
                   !.before = access, !.sent = TRUE,
                   !.req = [method |-> "POST",
                            url |-> [base |-> "AuthHost", endpoint |-> "token",
                                     query |-> <<>>],
                            authorization |-> <<>>,
                            form |-> payload],
                   !.resp = resp, !.returned = TRUE, !.err = err]

\* SetAccessToken up to, and not including, `c.access = access`: the
\* decoded grant is in the local variable `access`.  Every other path
\* returns here.
WExchange ==
    LET call == [NoCall EXCEPT !.op = "SetAccessToken", !.code = RaceCode,
                               !.creds = auth, !.before = access]
        enc == generateRequestURLHelper(
                   accReq(auth, auth.clientSecret, AuthorizationCodeText, RaceCode))
    IN
    /\ ~panicked
    /\ wPc = "idle"
    /\ IF DerefPanics(auth)
       THEN /\ panicked' = TRUE
            /\ last' = call
            /\ UNCHANGED <<wPc, wResp, fresh>>
       ELSE IF enc.err # NoErr
       THEN /\ last' = [call EXCEPT !.returned = TRUE, !.err = enc.err]
            /\ UNCHANGED <<wPc, wResp, fresh, panicked>>
       ELSE \E resp \in RaceResponses :
            LET r == ExchangeResult(resp, access) IN
            IF r.err = NoErr
            THEN /\ wPc' = "decoded"
                 /\ wResp' = resp
                 /\ fresh' = r.access
                 /\ UNCHANGED <<last, panicked>>
            ELSE /\ last' = Posted(enc.payload, resp, r.err)
                 /\ UNCHANGED <<wPc, wResp, fresh, panicked>>
    /\ UNCHANGED <<desc, encOut, serverToken, failed, access, auth, granted, autoVars,
                   rPc, rOld, rPtr, raced>>

\* c.access = access; return nil
WPublish ==
    LET enc == generateRequestURLHelper(
                   accReq(auth, auth.clientSecret, AuthorizationCodeText, RaceCode))
    IN
    /\ wPc = "decoded"
    /\ access' = fresh
    /\ granted' = [some |-> TRUE, grant |-> GrantOf(wResp)]
    /\ last' = Posted(enc.payload, wResp, NoErr)
    /\ raced' = (raced \/ rPc = "started")
    /\ wPc' = "idle"
    /\ wResp' = NoResponse
    /\ fresh' = ZeroAccess
    /\ UNCHANGED <<desc, encOut, serverToken, failed, auth, panicked, autoVars,
                   rPc, rOld, rPtr>>

\* GetUserProfile is called on the goroutine of the reader: what the client
\* holds now was assigned before the goroutine began.
RBegin ==
    /\ ~panicked
    /\ rPc = "idle"
    /\ rPc' = "started"
    /\ rOld' = access
    /\ rPtr' = [grant |-> ZeroAccess, racy |-> FALSE]
    /\ raced' = FALSE
    /\ UNCHANGED <<desc, encOut, serverToken, failed, access, auth, panicked, last,
                   granted, autoVars, wPc, wResp, fresh>>

\* c.Token, first half: the load of the pointer c.access.
RLoad ==
    /\ rPc = "started"
    /\ \E p \in {[grant |-> rOld, racy |-> FALSE]}
                \cup (IF raced THEN {[grant |-> access, racy |-> TRUE]} ELSE {}) :
          rPtr' = p
    /\ rPc' = "loaded"
    /\ UNCHANGED <<desc, encOut, serverToken, failed, access, auth, panicked, last,
                   granted, autoVars, wPc, wResp, fresh, rOld, raced>>

\* c.Token, second half: the load of the field Token through the pointer;
\* then the request is sent and httpReqDo handles the answer.
RSend ==
    LET call == [NoCall EXCEPT !.op = "GetUserProfile", !.creds = auth,
                               !.oauth = TRUE, !.before = rOld, !.returned = TRUE]
        u == generateRequestURL("UberAPIHost", "me", NilData)
    IN
    /\ rPc = "loaded"
    /\ \E tok \in {rPtr.grant.Token} \cup (IF rPtr.racy THEN {<<>>} ELSE {}),
          resp \in ApiResponses :
          last' = [call EXCEPT
                     !.sent = TRUE,
                     !.req = AuthorizedRequest("GET", u.url, TRUE, serverToken,
                                               [rPtr.grant EXCEPT !.Token = tok]),
                     !.resp = resp,
                     !.err = HttpResult("me", resp, FALSE)]
    /\ rPc' = "idle"
    /\ UNCHANGED <<desc, encOut, serverToken, failed, access, auth, panicked, granted,
                   autoVars, wPc, wResp, fresh, rOld, rPtr, raced>>

\* The credentials are set once, before the goroutines share the client.
RaceOAuth == auth.nil /\ OAuth

RaceNext == RaceOAuth \/ WExchange \/ WPublish \/ RBegin \/ RLoad \/ RSend

RaceSpec == RaceInit /\ [][RaceNext]_vars

(***************************************************************************)
(* RetrySpec: OAuth and SetAccessToken called one after the other on one   *)
(* client, with the kinds of error SetAccessToken has returned so far kept *)
(* as history.                                                             *)
(***************************************************************************)

RetryInit == Init

\* One call of SetAccessToken; a returned error is added to the history.
Attempt ==
    /\ ~panicked
    /\ \E authorizationCode \in {<<>>, <<"a", "c">>} :
          Exchange(authorizationCode, TokenResponses)
    /\ failed' = IF last'.returned /\ last'.err # NoErr
                 THEN failed \cup {last'.err.kind}
                 ELSE failed
    /\ UNCHANGED <<desc, encOut, serverToken, concVars, auth, autoVars>>

RetryNext == OAuth \/ Attempt

RetrySpec == RetryInit /\ [][RetryNext]_vars

(***************************************************************************)
(* ApiSpec: the endpoint methods called one after the other on a client    *)
(* whose session is set once and whose grant is exchanged now and then.    *)
(***************************************************************************)

ApiInit == Init

\* The constant RequestEndpoint, by its name
RequestEndpoint == "RequestEndpoint"

\* fmt.Sprintf("%s/%s", RequestEndpoint, requestID)
RequestPath(requestID) == IF requestID = "r1" THEN "RequestEndpoint/r1" ELSE "RequestEndpoint/"

\* type requestReq struct
requestReq(productID, startLatitude, startLongitude, endLatitude, endLongitude, surgeConfirmationID) ==
    << StrField("productID", <<"p", "r", "o", "d", "u", "c", "t", "_", "i", "d">>,
                TRUE, productID),
       FloatField("startLatitude",
                  <<"s", "t", "a", "r", "t", "_", "l", "a", "t", "i", "t", "u", "d", "e">>,
                  TRUE, startLatitude),
       FloatField("startLongitude",
                  <<"s", "t", "a", "r", "t", "_", "l", "o", "n", "g", "i", "t", "u", "d", "e">>,
                  TRUE, startLongitude),
       FloatField("endLatitude",
                  <<"e", "n", "d", "_", "l", "a", "t", "i", "t", "u", "d", "e">>,
                  TRUE, endLatitude),
       FloatField("endLongitude",
                  <<"e", "n", "d", "_", "l", "o", "n", "g", "i", "t", "u", "d", "e">>,
                  TRUE, endLongitude),
       StrField("surgeConfirmationID",
                <<"s", "u", "r", "g", "e", "_", "c", "o", "n", "f", "i", "r", "m", "a", "t",
                  "i", "o", "n", "_", "i", "d">>,
                FALSE, surgeConfirmationID) >>

\* type pricesReq struct
pricesReq(startLatitude, startLongitude, endLatitude, endLongitude) ==
    << FloatField("startLatitude",
                  <<"s", "t", "a", "r", "t", "_", "l", "a", "t", "i", "t", "u", "d", "e">>,
                  TRUE, startLatitude),
       FloatField("startLongitude",
                  <<"s", "t", "a", "r", "t", "_", "l", "o", "n", "g", "i", "t", "u", "d", "e">>,
                  TRUE, startLongitude),
       FloatField("endLatitude",
                  <<"e", "n", "d", "_", "l", "a", "t", "i", "t", "u", "d", "e">>,
                  TRUE, endLatitude),
       FloatField("endLongitude",
                  <<"e", "n", "d", "_", "l", "o", "n", "g", "i", "t", "u", "d", "e">>,
                  TRUE, endLongitude) >>

FirstNameRequired ==
    <<"f", "i", "r", "s", "t", "_", "n", "a", "m", "e", ":", "R", "e", "q", "u", "i", "r",
      "e", "d">>

\* What the API answers: no body, a body that is not JSON, and objects with
\* and without message, code and fields (fields as strings, and as the
\* arrays of strings the comment of uberError.Fields shows).
ApiAnswers ==
    {[fail |-> TRUE, status |-> 0, body |-> <<>>]}
    \cup [fail : {FALSE}, status : {200, 204, 404, 422},
          body : ApiBodies
                 \cup { <<Object(("message" :> JStr(<<"n", "o">>))
                                 @@ ("code" :> JStr(<<"b", "a", "d">>))
                                 @@ ("fields" :> JStrMap(FirstNameRequired)))>>,
                        <<Object(("message" :> JStr(<<"n", "o">>))
                                 @@ ("fields" :> JArrMap(FirstNameRequired)))>>,
                        <<Object("fields" :> JStrMap(FirstNameRequired))>> }]

\* c.OAuth with every argument given, once
ApiOAuth ==
    /\ RaceOAuth
    /\ auth'.clientID = Cid /\ auth'.clientSecret = Sec /\ auth'.redirectURI = Uri

\* c.SetAccessToken on a client whose session is set; the token endpoint
\* fails or grants tokA.
ApiExchange ==
    /\ ~panicked
    /\ ~auth.nil
    /\ Exchange(RaceCode, {r \in RaceResponses : r.fail \/ GrantOf(r).Token = TokA})
    /\ UNCHANGED <<desc, encOut, serverToken, failed, concVars, auth, autoVars>>

PostRequest ==
    \E productID \in {<<>>, <<"p", "1">>} :
        HttpReqDoOn("PostRequest", "POST", RequestEndpoint,
                    Data(requestReq(productID, 377, -1224, 378, -1225, <<"s">>)),
                    TRUE, FALSE, ApiAnswers)

DeleteRequest ==
    HttpReqDoOn("DeleteRequest", "DELETE", RequestPath("r1"), NilData, TRUE, TRUE, ApiAnswers)

GetPrices ==
    HttpReqDoOn("GetPrices", "GET", "estimates/price",
                Data(pricesReq(377, -1224, 378, -1225)), FALSE, FALSE, ApiAnswers)

GetTimes ==
    HttpReqDoOn("GetTimes", "GET", "estimates/time",
                Data(timesReq(377, -1224, <<"u", "1">>, <<>>)), FALSE, FALSE, ApiAnswers)

\* The endpoint it passes is TimeEndpoint.
GetUserActivity ==
    HttpReqDoOn("GetUserActivity", "GET", "estimates/time",
                Data(historyReq(0, 5)), TRUE, FALSE, ApiAnswers)

ApiNext ==
    \/ ApiOAuth
    \/ ApiExchange
    \/ PostRequest
    \/ DeleteRequest
    \/ GetProducts
    \/ GetPrices
    \/ GetTimes
    \/ GetUserActivity
    \/ GetUserProfile

ApiSpec == ApiInit /\ [][ApiNext]_vars

(***************************************************************************)
(* What the claims speak of, read off a description without running the    *)
(* encoder.                                                                *)
(***************************************************************************)

\* The fields the traversal meets, in depth-first declaration order: a
\* field tagged "-" is passed over with everything below it, a nested
\* struct stands for its own fields.
RECURSIVE Visited(_)
Visited(val) ==
    IF val = <<>> THEN <<>>
    ELSE LET fld == Head(val) IN
         (IF fld.tag = SkipTag THEN <<>>
          ELSE IF fld.kind = "struct" THEN Visited(fld.sub)
          ELSE <<fld>>) \o Visited(Tail(val))

Supported(fld) == fld.kind \in {"string", "int", "float64"}

\* The formatted value of a field of a supported kind
Formatted(fld) ==
    CASE fld.kind = "string" -> fld.s
      [] fld.kind = "int" -> FormatInt(fld.n)
      [] fld.kind = "float64" -> FormatFloat(fld.f)

\* A required field whose formatted value is empty
Missing(fld) == Supported(fld) /\ fld.required /\ Formatted(fld) = <<>>

Invalid(fld) == Missing(fld) \/ ~Supported(fld)

\* The position in Visited(val) of the first invalid field, 0 if there is none
FirstInvalid(val) ==
    LET v == Visited(val)
        bad == {i \in 1..Len(v) : Invalid(v[i])}
    IN  IF bad = {} THEN 0 ELSE CHOOSE i \in bad : \A j \in bad : i <= j

(***************************************************************************)
(* C1                                                                      *)
(***************************************************************************)

\* C1 as claimed: encoding fails with a missing-required-field error naming
\* such a field whenever some non-skipped required field has an empty
\* formatted value, and succeeds whenever every required field is non-empty
\* and all field kinds are supported.
C1_AsClaimed ==
    encOut.done =>
        LET v == Visited(desc) IN
        /\ (\E i \in 1..Len(v) : Missing(v[i])) =>
              /\ encOut.err.kind = "required"
              /\ \E i \in 1..Len(v) : Missing(v[i]) /\ v[i].name = encOut.err.field
        /\ (\A i \in 1..Len(v) : ~Invalid(v[i])) => encOut.err = NoErr

\* C1 (amended): encoding fails whenever some non-skipped required field has
\* an empty formatted value; the error is the missing-required-field error
\* naming the first such field, unless a field of an unsupported kind is met
\* before it in depth-first declaration order, and then the error is the
\* unsupported-kind error naming that field.  Encoding succeeds whenever
\* every required field is non-empty and all field kinds are supported.
C1_RequiredFieldRule ==
    encOut.done =>
        LET v == Visited(desc)
            fi == FirstInvalid(desc)
        IN  /\ (\E i \in 1..Len(v) : Missing(v[i])) => encOut.err # NoErr
            /\ (fi # 0 /\ Missing(v[fi])) => encOut.err = RequiredErr(v[fi].name)
            /\ (fi # 0 /\ ~Supported(v[fi])) => encOut.err = InvalidErr(v[fi].name)
            /\ fi = 0 => encOut.err = NoErr

\* A nested required string is empty, after a valid field, and the encoder
\* has reported it.
C1_Witness ==
    /\ encOut.done
    /\ Len(desc) = 2
    /\ desc[1].kind = "string" /\ desc[1].required /\ desc[1].s # <<>>
    /\ desc[2].kind = "struct" /\ desc[2].tag = <<>>
    /\ Len(desc[2].sub) = 1
    /\ Missing(desc[2].sub[1])
    /\ desc[2].sub[1].tag = <<"a">>
    /\ encOut.err = RequiredErr("B1")

(***************************************************************************)
(* C9                                                                      *)
(***************************************************************************)

ZeroNumber(fld) ==
    \/ fld.kind = "int" /\ fld.n = 0
    \/ fld.kind = "float64" /\ fld.f = 0

\* C9: a required int or float64 field whose value is 0 never causes a
\* missing-required-field error (such an error always names an empty
\* required string, and there is none without one), and when the encoding
\* of its description succeeds the field is emitted under its name with the
\* value "0".
C9_ZeroIsNotEmpty ==
    encOut.done =>
        LET v == Visited(desc)
            emptyStrings == {i \in 1..Len(v) : v[i].kind = "string" /\ v[i].required
                                                /\ v[i].s = <<>>}
        IN  /\ encOut.err.kind = "required" =>
                  \E i \in emptyStrings : v[i].name = encOut.err.field
            /\ emptyStrings = {} => encOut.err.kind # "required"
            /\ encOut.err = NoErr =>
                  \A i \in 1..Len(desc) :
                     (ZeroNumber(desc[i]) /\ desc[i].required
                        /\ desc[i].tag \notin {SkipTag, <<>>}) =>
                        /\ desc[i].tag \in DOMAIN encOut.payload
                        /\ \E j \in 1..Len(encOut.payload[desc[i].tag]) :
                              encOut.payload[desc[i].tag][j] = <<"0">>

\* A required float64 0 and a required int 0 have been encoded as a=0, b=0.
C9_Witness ==
    /\ encOut.done
    /\ desc = << FloatField("A1", <<"a">>, TRUE, 0), IntField("A2", <<"b">>, TRUE, 0) >>
    /\ encOut.err = NoErr
    /\ encOut.payload = (<<"a">> :> << <<"0">> >>) @@ (<<"b">> :> << <<"0">> >>)

(***************************************************************************)
(* C10                                                                     *)
(***************************************************************************)

\* The description without its fields tagged "-", at every depth
RECURSIVE StripSkipped(_)
StripSkipped(val) ==
    IF val = <<>> THEN <<>>
    ELSE LET fld == Head(val) IN
         (IF fld.tag = SkipTag THEN <<>>
          ELSE IF fld.kind = "struct"
               THEN << [fld EXCEPT !.sub = StripSkipped(fld.sub)] >>
               ELSE <<fld>>) \o StripSkipped(Tail(val))

\* A field tagged "-" is in the description, at the top or nested.
RECURSIVE HasSkipped(_)
HasSkipped(val) ==
    \E i \in 1..Len(val) :
        val[i].tag = SkipTag \/ (val[i].kind = "struct" /\ HasSkipped(val[i].sub))

\* C10: a field tagged "-" contributes no key and causes no error, whatever
\* its value, kind or required flag and at any depth: the output has no key
\* "-", an error is always due to an invalid field that is not skipped, and
\* the result is the one of the description with the skipped fields removed.
C10_SkipMarker ==
    encOut.done =>
        /\ SkipTag \notin DOMAIN encOut.payload
        /\ encOut.err # NoErr => FirstInvalid(desc) # 0
        /\ [err |-> encOut.err, payload |-> encOut.payload]
              = generateRequestURLHelper(StripSkipped(desc))

\* A nested struct holds a skipped required field of an unsupported kind
\* and a skipped empty required string before a plain field; the encoding
\* succeeded with the plain field alone.
C10_Witness ==
    /\ encOut.done
    /\ Len(desc) = 1 /\ desc[1].kind = "struct" /\ desc[1].tag = <<>>
    /\ Len(desc[1].sub) = 2
    /\ desc[1].sub[1].tag = SkipTag /\ desc[1].sub[1].required
    /\ desc[1].sub[1].kind \in {"bool", "string"}
    /\ desc[1].sub[2] = StrField("B2", <<"a">>, FALSE, <<"x">>)
    /\ encOut.err = NoErr
    /\ encOut.payload = (<<"a">> :> << <<"x">> >>)

(***************************************************************************)
(* C2 .. C7: OAuth and SetAccessToken                                      *)
(***************************************************************************)

\* The last call was a SetAccessToken that made its POST.
Exchanged == last.op = "SetAccessToken" /\ last.sent

\* C2: in every reachable state the grant of the client is the one of its
\* construction or the whole grant of the latest HTTP-200 Bearer answer an
\* exchange received; a call other than an exchange that received such an
\* answer leaves the grant as it found it, so nothing partially decoded is
\* ever stored.
C2_GrantIntegrity ==
    /\ access = IF granted.some THEN granted.grant ELSE ZeroAccess
    /\ (last.op # "none" /\ ~(Exchanged /\ IsBearerGrant(last.resp))) =>
          access = last.before

\* An exchange held the grant tokA, received HTTP 200 with a grant for tokB
\* whose expires_in has the wrong type, and the client still holds tokA.
C2_Witness ==
    /\ Exchanged
    /\ ~last.resp.fail /\ last.resp.status = 200
    /\ Len(last.resp.body) = 1 /\ last.resp.body[1].wf
    /\ Member(last.resp.body[1].obj, "access_token", "string")
    /\ last.resp.body[1].obj.access_token.s = TokB
    /\ Mistyped(last.resp.body[1].obj, "expires_in", "number")
    /\ last.err = DecodeErr
    /\ last.before.Token = TokA
    /\ access = last.before

\* C3: no call of OAuth or SetAccessToken panics, SetAccessToken on a client
\* on which OAuth was never called included.
C3_NoPanic == ~panicked

\* C4: an exchange answered with HTTP 200 and a Bearer grant G returns no
\* error and leaves the client's grant equal to G in its five fields, and
\* every request later made with the oauth flag carries "Bearer " and the
\* token of G.
C4_HappyPath ==
    /\ (Exchanged /\ IsBearerGrant(last.resp)) =>
          /\ last.returned
          /\ last.err = NoErr
          /\ access = GrantOf(last.resp)
    /\ (last.op \notin {"none", "OAuth", "SetAccessToken"} /\ last.oauth /\ last.sent
          /\ granted.some) =>
          last.req.authorization = Bearer \o <<" ">> \o granted.grant.Token

\* A grant for tokA with a refresh token was stored and GetUserProfile then
\* sent its request with "Bearer tokA".
C4_Witness ==
    /\ last.op = "GetUserProfile" /\ last.sent
    /\ granted.some
    /\ access = granted.grant
    /\ access.Token = TokA /\ access.RefreshToken = <<"r">> /\ access.ExpiresIn = 2592000
    /\ last.req.authorization = <<"B", "e", "a", "r", "e", "r", " ", "t", "o", "k", "A">>

\* The answer is not HTTP 200 and its body is an object with the string
\* member "error".
IsRejection(resp) ==
    /\ ~resp.fail
    /\ resp.status # 200
    /\ resp.body # <<>>
    /\ resp.body[1].wf
    /\ Member(resp.body[1].obj, "error", "string")

\* C5: an exchange answered with a status other than 200 and a body
\* {"error": e} returns the authorization error carrying e and leaves the
\* grant as it was before the call.
C5_Rejection ==
    (Exchanged /\ IsRejection(last.resp)) =>
        /\ last.returned
        /\ last.err = AuthError(last.resp.body[1].obj.error.s)
        /\ access = last.before

\* A client holding a grant was answered 400 {"error": "invalid_grant"}.
C5_Witness ==
    /\ Exchanged
    /\ IsRejection(last.resp)
    /\ last.resp.status = 400
    /\ last.err = AuthError(InvalidGrant)
    /\ access = last.before
    /\ access.Token = TokB

\* The body does not decode as an authorization error: it is empty, is not
\* JSON, or has an "error" member that is not a string.
Undecodable(body) ==
    \/ body = <<>>
    \/ ~body[1].wf
    \/ Mistyped(body[1].obj, "error", "string")

\* C6: an exchange answered with a status other than 200 and a body that
\* does not decode as an authorization error returns the decode error.
C6_DecodeErrorPropagates ==
    (Exchanged /\ ~last.resp.fail /\ last.resp.status # 200
        /\ Undecodable(last.resp.body)) =>
        last.err = DecodeErr

\* The answer is HTTP 200 with a well-typed grant whose token_type is there
\* and is not "Bearer".
IsNonBearerGrant(resp) ==
    /\ ~resp.fail
    /\ resp.status = 200
    /\ resp.body # <<>>
    /\ resp.body[1].wf
    /\ \A k \in DOMAIN AccessTyped :
          k \in DOMAIN resp.body[1].obj => resp.body[1].obj[k].t = AccessTyped[k]
    /\ Member(resp.body[1].obj, "token_type", "string")
    /\ resp.body[1].obj.token_type.s # Bearer

\* C7 as stated: an exchange answered with HTTP 200 and a grant that is not
\* a Bearer grant returns no error and changes nothing.
C7_AsClaimed ==
    (Exchanged /\ IsNonBearerGrant(last.resp)) =>
        /\ last.err = NoErr
        /\ access = last.before

\* C7: an exchange answered with HTTP 200 and a grant that is not a Bearer
\* grant does not store the grant and returns an authorization error: one
\* with no text when the body ends after the grant, one with the "error"
\* member of the JSON text that follows the grant otherwise.
C7_NonBearerIsAnError ==
    (Exchanged /\ IsNonBearerGrant(last.resp)) =>
        /\ last.returned
        /\ last.err.kind = "auth"
        /\ access = last.before
        /\ Len(last.resp.body) = 1 => last.err = AuthError(<<>>)
        /\ (Len(last.resp.body) > 1 /\ last.resp.body[2].wf
              /\ Member(last.resp.body[2].obj, "error", "string")) =>
              last.err = AuthError(last.resp.body[2].obj.error.s)

\* HTTP 200 with a complete grant of token_type "mac" and nothing after it:
\* the call returned the authorization error without text.
C7_Witness ==
    /\ Exchanged
    /\ IsNonBearerGrant(last.resp)
    /\ Len(last.resp.body) = 1
    /\ "refresh_token" \in DOMAIN last.resp.body[1].obj
    /\ last.err = AuthError(<<>>)
    /\ access = last.before

(***************************************************************************)
(* C8                                                                      *)
(***************************************************************************)

\* C8: when the call of OAuth inside AutOAuth fails (the encoder reports a
\* missing required field), AutOAuth returns that error, not success.
C8_AsClaimed ==
    (mainPc = "returned" /\ last.op = "OAuth" /\ last.err # NoErr) =>
        mainRet = last.err

(***************************************************************************)
(* C11                                                                     *)
(***************************************************************************)

\* A leaf field that must leave no pair: its value or its name is empty.
Silent(fld) == Supported(fld) /\ (Formatted(fld) = <<>> \/ fld.tag = <<>>)

\* The description without its silent leaf fields, at every depth
RECURSIVE DropSilent(_)
DropSilent(val) ==
    IF val = <<>> THEN <<>>
    ELSE LET fld == Head(val) IN
         (IF fld.tag # SkipTag /\ Silent(fld) THEN <<>>
          ELSE IF fld.kind = "struct"
               THEN << [fld EXCEPT !.sub = DropSilent(fld.sub)] >>
               ELSE <<fld>>) \o DropSilent(Tail(val))

StartLatLon ==
    { <<"s", "t", "a", "r", "t", "_", "l", "a", "t", "i", "t", "u", "d", "e">>,
      <<"s", "t", "a", "r", "t", "_", "l", "o", "n", "g", "i", "t", "u", "d", "e">> }

\* C11: when the encoding succeeds no key of the output is empty and no
\* value is empty; every pair that is not the mark of a nested description
\* comes from a visited leaf field with that non-empty name and that
\* non-empty formatted value; the output is the one of the description
\* without its leaf fields of empty value or empty name; and the
\* description of GetTimes with empty uuid and productID gives the two
\* coordinates alone.
C11_EmptyDropped ==
    (encOut.done /\ ~encOut.nil /\ encOut.err = NoErr) =>
        LET v == Visited(desc) IN
        /\ <<>> \notin DOMAIN encOut.payload
        /\ \A k \in DOMAIN encOut.payload : \A j \in 1..Len(encOut.payload[k]) :
              /\ encOut.payload[k][j] # <<>>
              /\ encOut.payload[k][j] # NilText =>
                    \E i \in 1..Len(v) :
                       /\ v[i].tag = k /\ k # <<>>
                       /\ Formatted(v[i]) = encOut.payload[k][j]
        /\ encOut.payload = generateRequestURLHelper(DropSilent(desc)).payload
        /\ desc = timesReq(377, -1224, <<>>, <<>>) => DOMAIN encOut.payload = StartLatLon

\* GetTimes' description with empty uuid and productID has been encoded.
C11_Witness ==
    /\ encOut.done
    /\ desc = timesReq(377, -1224, <<>>, <<>>)
    /\ encOut.err = NoErr
    /\ DOMAIN encOut.payload = StartLatLon

(***************************************************************************)
(* C12                                                                     *)
(***************************************************************************)

\* A field that is skipped, or a string that is optional and empty
SkippedOrOptionalEmpty(fld) ==
    \/ fld.tag = SkipTag
    \/ fld.kind = "string" /\ ~fld.required /\ fld.s = <<>>

\* C12: generateRequestURL returns base/endpoint with nothing after it when
\* the encoded parameter set is empty, which it is for a nil description
\* and for one whose fields are all skipped or optional and empty, and
\* base/endpoint, "?" and the encoded parameters otherwise; on an error of
\* the encoder it returns no URL.
C12_BareURL ==
    encOut.done =>
        IF encOut.err # NoErr THEN encOut.url = NoURL
        ELSE /\ encOut.url.base = "UberAPIHost"
             /\ encOut.url.endpoint = "endpoint"
             /\ encOut.payload = EmptyValues <=> encOut.url.query = <<>>
             /\ encOut.nil => encOut.url.query = <<>>
             /\ (\A i \in 1..Len(desc) : SkippedOrOptionalEmpty(desc[i])) =>
                   encOut.url.query = <<>>
             /\ encOut.payload # EmptyValues =>
                   /\ Len(encOut.url.query) >= 4
                   /\ Head(encOut.url.query) = "?"
                   /\ Tail(encOut.url.query) = ValuesEncode(encOut.payload)

\* A description of a skipped field and an optional empty string, not nil,
\* gave the bare URL.
C12_Witness ==
    /\ encOut.done /\ ~encOut.nil
    /\ Len(desc) = 2
    /\ desc[1].tag = SkipTag
    /\ desc[2] = StrField("A2", <<"a">>, FALSE, <<>>)
    /\ encOut.err = NoErr
    /\ encOut.url = [base |-> "UberAPIHost", endpoint |-> "endpoint", query |-> <<>>]

(***************************************************************************)
(* C13                                                                     *)
(***************************************************************************)

\* The session whose three credentials are set
FullSession ==
    [nil |-> FALSE, clientID |-> Cid, clientSecret |-> Sec, redirectURI |-> Uri]

\* The description of the token exchange, nothing in it empty
FullAccReq == accReq(FullSession, Sec, AuthorizationCodeText, <<"a", "c">>)

\* C13 as stated: the token-exchange description encodes to seven keys.
C13_AsClaimed ==
    (encOut.done /\ desc = FullAccReq) =>
        /\ encOut.err = NoErr
        /\ Cardinality(DOMAIN encOut.payload) = 7

\* C13: the token-exchange description encodes to the flat union of the
\* keys of the nested auth description that are not skipped (client_id,
\* redirect_uri) and of its own three fields (client_secret, grant_type,
\* code): five keys, each with the one value of its field.
C13_FlatUnion ==
    (encOut.done /\ desc = FullAccReq) =>
        /\ encOut.err = NoErr
        /\ encOut.payload =
              (ClientIdText :> <<Cid>>) @@ (RedirectUriText :> <<Uri>>)
              @@ (ClientSecretText :> <<Sec>>)
              @@ (GrantTypeText :> <<AuthorizationCodeText>>)
              @@ (CodeText :> << <<"a", "c">> >>)
        /\ Cardinality(DOMAIN encOut.payload) = 5

\* The token-exchange description has been encoded.
C13_Witness ==
    /\ encOut.done
    /\ desc = FullAccReq
    /\ Len(desc) = 4 /\ desc[1].kind = "struct" /\ Len(desc[1].sub) = 3
    /\ encOut.err = NoErr
    /\ DOMAIN encOut.payload =
          {ClientIdText, RedirectUriText, ClientSecretText, GrantTypeText, CodeText}

(***************************************************************************)
(* C14                                                                     *)
(***************************************************************************)

\* The keys the nested descriptions of val hand to the merge
NestedKeys(val) ==
    UNION { DOMAIN generateRequestURLHelper(val[i].sub).payload :
              i \in {j \in 1..Len(val) : val[j].kind = "struct" /\ val[j].tag # SkipTag} }

\* The value first seen for key k in declaration order among the leaf
\* fields, <<>> if no leaf field gives one
FirstSeen(val, k) ==
    LET v == Visited(val)
        giving == {i \in 1..Len(v) : Supported(v[i]) /\ v[i].tag = k /\ ~Silent(v[i])}
    IN  IF giving = {} THEN <<>>
        ELSE Formatted(v[CHOOSE i \in giving : \A j \in giving : i <= j])

\* Every nested description is embedded without a name of its own, as
\* auth is in authReq and accReq.
RECURSIVE Embedded(_)
Embedded(val) ==
    \A i \in 1..Len(val) :
        val[i].kind = "struct" => (val[i].tag \in {<<>>, SkipTag} /\ Embedded(val[i].sub))

\* C14: when the encoding of a description with embedded descriptions
\* succeeds, a key that a nested description hands to the merge has exactly
\* one value in the output, the one first seen in declaration order.
C14_FirstSeenWins ==
    (encOut.done /\ encOut.err = NoErr /\ Embedded(desc)) =>
        \A k \in NestedKeys(desc) :
            /\ k \in DOMAIN encOut.payload
            /\ Len(encOut.payload[k]) = 1
            /\ FirstSeen(desc, k) # <<>> => encOut.payload[k][1] = FirstSeen(desc, k)

(***************************************************************************)
(* C15                                                                     *)
(***************************************************************************)

HexVal(c) == CHOOSE n \in 0..15 : Hex(n) = c

ByteChar(n) == CHOOSE c \in {" ", "%", "&", "+", "/", ":", "<", "=", ">"} : Byte(c) = n

\* url.QueryUnescape
RECURSIVE QueryUnescape(_)
QueryUnescape(s) ==
    IF s = <<>> THEN <<>>
    ELSE IF Head(s) = "+" THEN <<" ">> \o QueryUnescape(Tail(s))
    ELSE IF Head(s) = "%"
    THEN <<ByteChar(16 * HexVal(s[2]) + HexVal(s[3]))>> \o QueryUnescape(SubSeq(s, 4, Len(s)))
    ELSE <<Head(s)>> \o QueryUnescape(Tail(s))

\* The position of the first sep in s, Len(s) + 1 if there is none
FirstAt(s, sep) ==
    IF \E i \in 1..Len(s) : s[i] = sep
    THEN CHOOSE i \in 1..Len(s) : s[i] = sep /\ \A j \in 1..(i - 1) : s[j] # sep
    ELSE Len(s) + 1

\* The pairs of a query string, in the order they are written in it
RECURSIVE QueryPairs(_)
QueryPairs(q) ==
    IF q = <<>> THEN <<>>
    ELSE LET amp == FirstAt(q, "&")
             seg == SubSeq(q, 1, amp - 1)
             eq == FirstAt(seg, "=")
         IN  << << QueryUnescape(SubSeq(seg, 1, eq - 1)),
                   QueryUnescape(SubSeq(seg, eq + 1, Len(seg))) >> >>
             \o QueryPairs(SubSeq(q, amp + 1, Len(q)))

\* The pairs of the leaf fields that give one, in declaration order, a
\* nested description's at the place where it is embedded
RECURSIVE LeafPairs(_)
LeafPairs(v) ==
    IF v = <<>> THEN <<>>
    ELSE (IF Supported(Head(v)) /\ ~Silent(Head(v))
          THEN << <<Head(v).tag, Formatted(Head(v))>> >> ELSE <<>>)
         \o LeafPairs(Tail(v))

DeclPairs(val) == LeafPairs(Visited(val))

\* No two leaf fields give a pair for the same key.
DistinctKeys(val) ==
    LET ps == DeclPairs(val) IN
    \A i, j \in 1..Len(ps) : ps[i][1] = ps[j][1] => i = j

\* The query string without its "?"
Query == IF encOut.url.query = <<>> THEN <<>> ELSE Tail(encOut.url.query)

\* The values written for key k in a sequence of pairs, in their order
RECURSIVE ValuesOf(_, _)
ValuesOf(ps, k) ==
    IF ps = <<>> THEN <<>>
    ELSE (IF Head(ps)[1] = k THEN <<Head(ps)[2]>> ELSE <<>>) \o ValuesOf(Tail(ps), k)

\* C15 as stated: the parameters appear in the query string in the
\* declaration order of the fields (for a description with embedded
\* descriptions and no key given twice).
C15_AsClaimed ==
    (encOut.done /\ ~encOut.nil /\ encOut.err = NoErr
        /\ Embedded(desc) /\ DistinctKeys(desc)) =>
        QueryPairs(Query) = DeclPairs(desc)

\* C15: the query string lists the parameters in ascending byte order of
\* their names, whatever the declaration order, the values of one name in
\* the order the output holds them; its names are the keys of the output.
C15_SortedByName ==
    (encOut.done /\ encOut.err = NoErr) =>
        LET ps == QueryPairs(Query) IN
        /\ \A i, j \in 1..Len(ps) :
              i < j => (ps[i][1] = ps[j][1] \/ StrLess(ps[i][1], ps[j][1]))
        /\ {ps[i][1] : i \in 1..Len(ps)} = DOMAIN encOut.payload
        /\ \A k \in DOMAIN encOut.payload : ValuesOf(ps, k) = encOut.payload[k]
        /\ (Embedded(desc) /\ DistinctKeys(desc)) =>
              LET orig == DeclPairs(desc) IN
              /\ Len(ps) = Len(orig)
              /\ \A i \in 1..Len(ps) : \E j \in 1..Len(ps) : orig[j] = ps[i]

\* GetTimes' description, declared start_latitude, start_longitude,
\* customer_uuid, product_id, has been encoded and customer_uuid is written
\* first, start_longitude last.
C15_Witness ==
    /\ encOut.done
    /\ desc = timesReq(377, -1224, <<"u", "1">>, <<"p", "1">>)
    /\ encOut.err = NoErr
    /\ Len(QueryPairs(Query)) = 4
    /\ QueryPairs(Query)[1] = << desc[3].tag, <<"u", "1">> >>
    /\ QueryPairs(Query)[4][1] = desc[2].tag

(***************************************************************************)
(* C16                                                                     *)
(***************************************************************************)

\* A description with no nested description and no omitted field: every
\* field is a leaf of a supported kind that is not skipped and has a name
\* and a value.
FlatAndComplete(val) ==
    \A i \in 1..Len(val) :
        Supported(val[i]) /\ val[i].tag # SkipTag /\ ~Silent(val[i])

\* C16: for a description with no nested and no omitted fields, the pairs
\* read back from the query string are exactly the name and formatted value
\* of its fields: the same pairs, as many of them.
C16_RoundTrip ==
    (encOut.done /\ ~encOut.nil /\ FlatAndComplete(desc)) =>
        LET ps == QueryPairs(Query)
            orig == DeclPairs(desc)
        IN  /\ encOut.err = NoErr
            /\ Len(ps) = Len(desc)
            /\ {ps[i] : i \in 1..Len(ps)} = {orig[i] : i \in 1..Len(orig)}
            /\ {orig[i] : i \in 1..Len(orig)} =
                  {<<desc[i].tag, Formatted(desc[i])>> : i \in 1..Len(desc)}
            /\ \A k \in {orig[i][1] : i \in 1..Len(orig)} :
                  ValuesOf(ps, k) = ValuesOf(orig, k)

\* GetTimes' description with a product id holding "=", "&", " ", "+" and
\* "%" has been encoded and the product id and the latitude 37.7 read back.
C16_Witness ==
    /\ encOut.done
    /\ desc = timesReq(377, -1224, <<"u", "1">>, <<"k", "=", "v", "&", " ", "+", "%">>)
    /\ encOut.err = NoErr
    /\ Len(QueryPairs(Query)) = 4
    /\ QueryPairs(Query)[2] = << desc[4].tag, <<"k", "=", "v", "&", " ", "+", "%">> >>
    /\ QueryPairs(Query)[3] = << desc[1].tag, <<"3", "7", ".", "7">> >>

(***************************************************************************)
(* C17                                                                     *)
(***************************************************************************)

\* The scope strings joined by single spaces, for the scopes of the model
SpaceJoined(scope) ==
    CASE Len(scope) = 0 -> <<>>
      [] Len(scope) = 1 -> scope[1]
      [] Len(scope) = 2 -> scope[1] \o <<" ">> \o scope[2]

\* The pairs written in the URL the last call returned
UrlPairs ==
    LET ps == QueryPairs(IF last.url.query = <<>> THEN <<>> ELSE Tail(last.url.query))
    IN  {ps[i] : i \in 1..Len(ps)}

ReaderSent == last.op = "GetUserProfile" /\ last.sent /\ rPc = "idle"

\* C18: a request that reads the grant while SetAccessToken is running
\* carries the token of the complete previous grant or of the complete new
\* grant, in every interleaving: never that of a partially decoded one.
C18_AtomicPublish ==
    ReaderSent =>
        \E g \in {rOld, rPtr.grant} :
            last.req.authorization = Bearer \o <<" ">> \o g.Token

(***************************************************************************)
(* C19                                                                     *)
(***************************************************************************)

\* C19: a SetAccessToken that returns an error, whatever the error, leaves
\* the client id, client secret and redirect URI of the session as they
\* were; and on a client on which SetAccessToken has failed, a
\* SetAccessToken answered with HTTP 200 and a Bearer grant returns no error
\* and stores that grant.
C19_NotSticky ==
    /\ (last.op = "SetAccessToken" /\ last.returned /\ last.err # NoErr) =>
          auth = last.creds
    /\ (failed # {} /\ Exchanged /\ IsBearerGrant(last.resp)) =>
          /\ last.returned
          /\ last.err = NoErr
          /\ access = GrantOf(last.resp)

\* SetAccessToken has failed on this client for a missing field, a failed
\* transport, a body that does not decode and a rejection; the client held
\* tokA, and the exchange now answered with a Bearer grant for tokB stored
\* it.
C19_Witness ==
    /\ failed = {"required", "transport", "decode", "auth"}
    /\ Exchanged
    /\ IsBearerGrant(last.resp)
    /\ last.err = NoErr
    /\ last.before.Token = TokA
    /\ access = GrantOf(last.resp)
    /\ access.Token = TokB
    /\ auth = last.creds

(***************************************************************************)
(* C20                                                                     *)
(***************************************************************************)

RequestOps == {"GetProducts", "GetUserProfile"}

\* C20: a request sent without the oauth flag carries "Token " and the
\* server token, one sent with it carries "Bearer " and the token of the
\* grant the client holds, whether or not a server token or a grant is
\* there; and the step that sends a request changes neither the server
\* token nor the grant.
C20_SelectedByFlag ==
    /\ [](  (last.op \in RequestOps /\ last.sent) =>
              last.req.authorization =
                  IF last.oauth THEN Bearer \o <<" ">> \o access.Token
                  ELSE <<"T", "o", "k", "e", "n", " ">> \o serverToken)
    /\ [][ last'.op \in RequestOps =>
              (serverToken' = serverToken /\ access' = access) ]_vars

\* The client holds the grant tokA and no server token; GetProducts, which
\* does not set the oauth flag, was sent with "Token " and nothing more.
C20_Witness ==
    /\ last.op = "GetProducts" /\ last.sent /\ ~last.oauth
    /\ serverToken = <<>>
    /\ granted.some /\ access.Token = TokA
    /\ last.req.authorization = <<"T", "o", "k", "e", "n", " ">>

(***************************************************************************)
(* C21                                                                     *)
(***************************************************************************)

GetOps == {"GetProducts", "GetPrices", "GetTimes", "GetUserActivity", "GetUserProfile"}

\* C21: the request that reaches the server has the method httpReqDo was
\* asked for: POST for PostRequest, DELETE for DeleteRequest, GET for the
\* methods that go through the get helper.
C21_MethodAsAsked ==
    last.sent =>
        /\ last.op = "PostRequest" => last.req.method = "POST"
        /\ last.op = "DeleteRequest" => last.req.method = "DELETE"
        /\ last.op \in GetOps => last.req.method = "GET"

(***************************************************************************)
(* C27                                                                     *)
(***************************************************************************)

ApiOps == GetOps \cup {"PostRequest", "DeleteRequest"}

\* The last call was an endpoint method whose request was answered.
Answered == last.op \in ApiOps /\ last.sent /\ ~last.resp.fail

\* The string member k of the first text of the body, "" when it is not
\* there
TextOf(body, k) == IF k \in DOMAIN body[1].obj THEN body[1].obj[k].s ELSE <<>>

\* The first text of the body is an object that decodes as an uberError.
DecodesAsUberError(body) ==
    /\ body # <<>>
    /\ body[1].wf
    /\ \A k \in DOMAIN body[1].obj :
          /\ k \in {"message", "code"} => body[1].obj[k].t = "string"
          /\ k = "fields" => body[1].obj[k].t = "strmap"

C29_DeleteSucceedsOn2xx ==
    (last.op = "DeleteRequest" /\ last.returned) =>
        /\ (last.sent /\ ~last.resp.fail /\ last.resp.status \in 200..299) =>
              last.err = NoErr
        /\ last.err # NoErr =>
              \/ ~last.sent
              \/ last.resp.fail
              \/ last.resp.status >= 300

(***************************************************************************)
(* C30                                                                     *)
(***************************************************************************)

TokenPrefix == <<"T", "o", "k", "e", "n", " ">>

\* C30: GetUserActivity requests the history endpoint and GetUserProfile
\* the me endpoint, both with the bearer token; GetProducts, GetPrices and
\* GetTimes request products, estimates/price and estimates/time with the
\* server token; GetPrices sends startLat, startLon, endLat, endLon as
\* start_latitude, start_longitude, end_latitude, end_longitude.
C30_OwnEndpoint ==
    (last.op \in GetOps /\ last.sent) =>
        LET u == last.req.url
            bearer == Bearer \o <<" ">> \o access.Token
            token == TokenPrefix \o serverToken
            ps == QueryPairs(IF u.query = <<>> THEN <<>> ELSE Tail(u.query))
        IN
        /\ u.base = "UberAPIHost"
        /\ last.op = "GetUserActivity" =>
              u.endpoint = "history" /\ last.req.authorization = bearer
        /\ last.op = "GetUserProfile" =>
              u.endpoint = "me" /\ last.req.authorization = bearer
        /\ last.op = "GetProducts" =>
              u.endpoint = "products" /\ last.req.authorization = token
        /\ last.op = "GetTimes" =>
              u.endpoint = "estimates/time" /\ last.req.authorization = token
        /\ last.op = "GetPrices" =>
              /\ u.endpoint = "estimates/price" /\ last.req.authorization = token
              /\ {ps[i] : i \in 1..Len(ps)} =
                    { << pricesReq(0, 0, 0, 0)[1].tag, <<"3", "7", ".", "7">> >>,
                      << pricesReq(0, 0, 0, 0)[2].tag, <<"-", "1", "2", "2", ".", "4">> >>,
                      << pricesReq(0, 0, 0, 0)[3].tag, <<"3", "7", ".", "8">> >>,
                      << pricesReq(0, 0, 0, 0)[4].tag, <<"-", "1", "2", "2", ".", "5">> >> }

(***************************************************************************)
(* C22                                                                     *)
(***************************************************************************)

\* The last call was a SetAccessToken, on a client with a session, that
\* returned.
ExchangeReturned == last.op = "SetAccessToken" /\ last.returned /\ ~last.creds.nil

\* One of the four values the exchange needs is empty.
Incomplete ==
    \/ last.creds.clientID = <<>>
    \/ last.creds.redirectURI = <<>>
    \/ last.creds.clientSecret = <<>>
    \/ last.code = <<>>

\* C22: when the client id, the redirect URI or the client secret of the
\* session, or the authorization code, is empty, SetAccessToken returns a
\* missing-required-field error and posts nothing; otherwise it makes one
\* POST to the token endpoint whose form holds client_id, redirect_uri,
\* client_secret, grant_type=authorization_code and code, each once.
C22_ValidateThenPost ==
    ExchangeReturned =>
        IF Incomplete
        THEN /\ last.err.kind = "required"
             /\ ~last.sent
             /\ last.req = NoRequest /\ last.resp = NoResponse
             /\ access = last.before
        ELSE /\ last.sent
             /\ last.err.kind # "required"
             /\ last.req.method = "POST"
             /\ last.req.url = [base |-> "AuthHost", endpoint |-> "token", query |-> <<>>]
             /\ last.req.form =
                    (ClientIdText :> <<last.creds.clientID>>)
                    @@ (RedirectUriText :> <<last.creds.redirectURI>>)
                    @@ (ClientSecretText :> <<last.creds.clientSecret>>)
                    @@ (GrantTypeText :> <<AuthorizationCodeText>>)
                    @@ (CodeText :> <<last.code>>)

\* A complete session and an empty code: the error names the field code
\* and nothing was posted.
C22_Witness ==
    /\ ExchangeReturned
    /\ last.creds.clientID # <<>> /\ last.creds.redirectURI # <<>>
    /\ last.creds.clientSecret # <<>>
    /\ last.code = <<>>
    /\ last.err = RequiredErr("code")
    /\ ~last.sent

(***************************************************************************)
(* C23                                                                     *)
(***************************************************************************)

\* C23 as stated: whenever a non-skipped field has a kind other than
\* string, int, float64 or struct, the error of the encoding names that
\* field.
C23_AsClaimed ==
    encOut.done =>
        LET v == Visited(desc) IN
        \A i \in 1..Len(v) : ~Supported(v[i]) => encOut.err = InvalidErr(v[i].name)

\* C23: when a non-skipped field has a kind other than string, int,
\* float64 or struct the encoding fails and produces no output, and
\* generateRequestURL returns the error of the traversal unchanged with no
\* URL; the error names that field when no invalid field is met before it,
\* and the invalid field met first otherwise.
C23_UnsupportedRejected ==
    encOut.done =>
        LET v == Visited(desc)
            fi == FirstInvalid(desc)
        IN  (\E i \in 1..Len(v) : ~Supported(v[i])) =>
                /\ encOut.err # NoErr
                /\ encOut.payload = EmptyValues
                /\ encOut.url = NoURL
                /\ generateRequestURL("UberAPIHost", "endpoint", Data(desc)) =
                      [err |-> encOut.err, url |-> NoURL]
                /\ encOut.err.field = v[fi].name
                /\ ~Supported(v[fi]) => encOut.err = InvalidErr(v[fi].name)
                /\ encOut.err.kind = "invalid" => ~Supported(v[fi])

\* A valid string, then a nested struct whose second field is of an
\* unsupported kind: the encoding failed naming it.
C23_Witness ==
    /\ encOut.done
    /\ Len(desc) = 2
    /\ desc[1].kind = "string" /\ desc[1].s # <<>>
    /\ desc[2].kind = "struct" /\ desc[2].tag = <<>>
    /\ Len(desc[2].sub) = 2
    /\ desc[2].sub[1].kind = "string" /\ ~Invalid(desc[2].sub[1])
    /\ desc[2].sub[2].kind = "bool" /\ desc[2].sub[2].tag # SkipTag
    /\ encOut.err = InvalidErr("B2")
    /\ encOut.url = NoURL

(***************************************************************************)
(* C25                                                                     *)
(***************************************************************************)

\* The description cut right after the first invalid field the traversal
\* meets
RECURSIVE CutAfterInvalid(_)
CutAfterInvalid(val) ==
    IF val = <<>> THEN <<>>
    ELSE LET fld == Head(val) IN
         IF fld.tag = SkipTag THEN <<fld>> \o CutAfterInvalid(Tail(val))
         ELSE IF fld.kind = "struct"
         THEN IF FirstInvalid(fld.sub) # 0
              THEN << [fld EXCEPT !.sub = CutAfterInvalid(fld.sub)] >>
              ELSE <<fld>> \o CutAfterInvalid(Tail(val))
         ELSE IF Invalid(fld) THEN <<fld>>
         ELSE <<fld>> \o CutAfterInvalid(Tail(val))

\* The number of invalid fields the traversal would meet if it went on
InvalidCount(val) ==
    LET v == Visited(val) IN Cardinality({i \in 1..Len(v) : Invalid(v[i])})

\* C25: when fields of a description are invalid, the encoding returns one
\* error, the one of the first invalid field in depth-first declaration
\* order (missing-required for an empty required string, unsupported-kind
\* otherwise), and what follows that field has no part in the result.
C25_FirstInvalidWins ==
    encOut.done =>
        LET v == Visited(desc)
            fi == FirstInvalid(desc)
        IN  /\ fi = 0 => encOut.err = NoErr
            /\ fi # 0 =>
                  /\ encOut.err = IF Missing(v[fi]) THEN RequiredErr(v[fi].name)
                                  ELSE InvalidErr(v[fi].name)
                  /\ encOut.payload = EmptyValues
                  /\ generateRequestURLHelper(CutAfterInvalid(desc)) =
                        [err |-> encOut.err, payload |-> encOut.payload]

\* Three invalid fields: an unsupported field inside a nested struct, an
\* empty required string after it there, and an empty required string
\* after the struct; the error names the first.
C25_Witness ==
    /\ encOut.done
    /\ InvalidCount(desc) = 3
    /\ Len(desc) = 2
    /\ desc[1].kind = "struct" /\ desc[1].tag = <<>>
    /\ Len(desc[1].sub) = 2
    /\ desc[1].sub[1].kind = "bool"
    /\ Missing(desc[1].sub[2])
    /\ Missing(desc[2])
    /\ encOut.err = InvalidErr("B1")

(***************************************************************************)
(* C24                                                                     *)
(***************************************************************************)

\* C24: once AutOAuth has returned, with success or with an error, the
\* callback listener accepts no request any more and its goroutine has
\* ended.
C24_ListenerShutDown ==
    mainPc = "returned" => listener \in {"off", "done"}

(***************************************************************************)
(* C26                                                                     *)
(***************************************************************************)

\* The redirect request of handler h carries a state other than State or
\* no code.
Tampered(h) == handlers[h].state # State \/ handlers[h].code = <<>>

\* C26: a redirect request whose state is not State, or whose code is
\* empty, never brings its handler to SetAccessToken: as long as every
\* request received is of that kind nothing is posted to the token endpoint
\* and the grant is the one held before the flow; and the grant is that
\* one whenever AutOAuth returns the tampering error.
C26_TamperingStopsHandler ==
    /\ \A h \in 1..MaxRedirects :
          (handlers[h].pc # "idle" /\ Tampered(h)) =>
              handlers[h].pc \in {"sendTamper", "sendNoCode"}
    /\ (\A h \in 1..MaxRedirects : handlers[h].pc # "idle" => Tampered(h)) =>
          ~Exchanged /\ access = ZeroAccess
    /\ (mainPc = "returned" /\ mainRet.kind = "tamper") => access = ZeroAccess

(***************************************************************************)
(* C28                                                                     *)
(***************************************************************************)

\* Handler h is at a send on httpErr.
AtSend(h) == handlers[h].pc \in {"sendTamper", "sendNoCode", "sendErr"}

\* C28: no goroutine is left at a send on httpErr that nothing will
\* receive: once AutOAuth has returned, neither a handler nor the goroutine
\* of ListenAndServe is at such a send; and no handler panics closing
\* httpDone.
C28_NoGoroutineStuck ==
    /\ ~panicked
    /\ mainPc = "returned" =>
          /\ listener # "failed"
          /\ \A h \in 1..MaxRedirects : ~AtSend(h)

=============================================================================
